---- MODULE Spec2Model ----
(***************************************************************************)
(* Background tracking engine of the viewer-metrics extension              *)
(* (src/unnamed/part_003): the ApiManager request gateway and the          *)
(* BackgroundService session supervisor, scheduler and fetch operations.   *)
(*                                                                         *)
(* JavaScript runs each callback to its next await without interleaving,   *)
(* so one action is one such run: a message handler up to its reply or its *)
(* first network/transport await, a timer callback up to its first await,  *)
(* or the continuation of a settled await.                                 *)
(***************************************************************************)
EXTENDS Integers, Sequences, FiniteSets, Bags, TLC

(* ------------------------------ bounds -------------------------------- *)
\* Session objects ever created by START_BACKGROUND_TRACKING in one run of the
\* supervisor view; the other views follow one session from its start.
MaxSessions == 2
\* Clock: Date.now() advances in steps of TickMs, at most MaxTicks times.
MaxTicks == 2
TickMs == 20000
\* Roster fetch cycles started per session (metadata.totalRequests is the counter).
MaxFetches == 2
\* Cap on communicationFailures.count (the code's counter is unbounded).
MaxFailCount == 2
\* Status pushes / health pings of one session in flight at a time.
MaxInFlight == 1

\* Samples recorded by updateViewerListConcurrency in one run of the concurrency view.
MaxSamples == 12
\* Usernames the backend may list: 1..MaxUsers.
MaxUsers == 2
\* Requests handed to ApiManager.makeRequest in one run.
MaxRequestsMade == 4
\* The gateway's numbers, scaled down with their order kept: maxRequests (5000 in the
\* source), the length recentRequests is trimmed to (1000), and the batch width
\* concurrentUserInfoBatches (50).
maxRequests == 3
RecentRequestsKept == 2
concurrentUserInfoBatches == 2

Channels == {"A", "B"}
Tabs == {1, 2}
Users == 1..MaxUsers

(* ------------------------- program constants -------------------------- *)
requestWindow == 60000
CommFailureWindowMs == 30000
ViewerCountIntervalMs == 60000
CleanupIntervalMs == 15000
ApiStatusIntervalMs == 5000
HealthCheckIntervalMs == 10000
DefaultRefreshInterval == 30000
DefaultRequestInterval == 5000
DefaultTimeoutDuration == 300000
DefaultBatchSize == 20
DefaultConcurrentUserInfoBatches == 50
DefaultCallsInitial == 50
DefaultCallsReduced == 10
\* 0.05 and 0.10, held as percentages
DefaultThresholdLowPct == 5
DefaultThresholdHighPct == 10

\* A property that the message's config object does not carry.
Absent == -1

TimerNames == {"viewerList", "viewerCount", "userInfo", "cleanup", "apiStatus", "healthCheck"}

VARIABLES
  trackingSessions,  \* BackgroundService.trackingSessions: channel -> session id, 0 = no entry
  sessions,          \* the session objects ever created (they outlive their registry entry)
  liveTimers,        \* the runtime's repeating timers: session -> timer name -> how many are live
  tasks,             \* bag of suspended async operations (awaiting a fetch, a push, a ping, a timeout)
  notifications,     \* TRACKING_STOPPED_BY_OTHER_TAB messages sent so far
  stoppedBy,         \* history: which code path removed the session from the registry
  response,          \* what the step just taken replied or did (reset by every step)
  now,               \* Date.now()
  requestQueue,      \* ApiManager.requestQueue: sequence of queued requests
  isProcessing,      \* ApiManager.isProcessing
  drains,            \* bag of running processQueue calls, each suspended at an await
  promises,          \* request id -> "pending" | "executing" | "resolved" | "rejected"
  dataStats,         \* ApiManager.dataStats: totalApiCalls and recentRequests (timestamps)
  requestCount,      \* ApiManager.requestCount
  executed,          \* history: the time at which each network call was issued
  roster,            \* input and result of one getViewerListParallel call
  accessor           \* the last getViewerCount / getUserInfo call: the gateway's reply and the result

svVars == <<trackingSessions, sessions, liveTimers, tasks, notifications, stoppedBy>>
gwVars == <<requestQueue, isProcessing, drains, promises, dataStats, requestCount, executed>>
vars == <<trackingSessions, sessions, liveTimers, tasks, notifications, stoppedBy, response, now,
          requestQueue, isProcessing, drains, promises, dataStats, requestCount, executed, roster,
          accessor>>

(* ------------------------------ helpers ------------------------------- *)
Min(a, b) == IF a < b THEN a ELSE b
Max(a, b) == IF a > b THEN a ELSE b

Sids == DOMAIN sessions
Registered == {ch \in Channels : trackingSessions[ch] # 0}
RegisteredSids == {trackingSessions[ch] : ch \in Registered}

\* The mutable state the supervisor's synchronous code works on, threaded through
\* the operators below: reg = trackingSessions, sess = sessions, timers = liveTimers.
NoResponse == [op |-> "none", channelName |-> "", tabId |-> 0, sid |-> 0, success |-> FALSE,
               displaced |-> {}]

Resp(op, ch, tab, sid, ok) ==
  [NoResponse EXCEPT !.op = op, !.channelName = ch, !.tabId = tab, !.sid = sid, !.success = ok]

\* the timer callback of session s that the step just taken has run
Ran(op, s) == [NoResponse EXCEPT !.op = op, !.sid = s]

\* The mutable state the synchronous code works on, threaded through the operators
\* below: reg = trackingSessions, sess = sessions, timers = liveTimers,
\* notes = notifications, by = stoppedBy, resp = the reply sent during the step.
World == [reg |-> trackingSessions, sess |-> sessions, timers |-> liveTimers,
          notes |-> notifications, by |-> stoppedBy, tasks |-> tasks, resp |-> NoResponse]

Apply(W) ==
  /\ trackingSessions' = W.reg
  /\ sessions' = W.sess
  /\ liveTimers' = W.timers
  /\ notifications' = W.notes
  /\ stoppedBy' = W.by
  /\ tasks' = W.tasks

(* --------------------------- configuration ---------------------------- *)
\* sessionConfig (startBackgroundTracking): `config.x || default` and then `...config`,
\* so a property the message carries always wins, a zero included.
Field(config, name, default) == IF config[name] # Absent THEN config[name] ELSE default

SessionConfig(config) ==
  [refreshInterval |-> Field(config, "refreshInterval", DefaultRefreshInterval),
   requestInterval |-> Field(config, "requestInterval", DefaultRequestInterval),
   timeoutDuration |-> Field(config, "timeoutDuration", DefaultTimeoutDuration),
   batchSize |-> Field(config, "batchSize", DefaultBatchSize),
   concurrentUserInfoBatches |-> Field(config, "concurrentUserInfoBatches", DefaultConcurrentUserInfoBatches),
   viewerListConcurrentCallsInitial |-> Field(config, "viewerListConcurrentCallsInitial", DefaultCallsInitial),
   viewerListConcurrentCallsReduced |-> Field(config, "viewerListConcurrentCallsReduced", DefaultCallsReduced),
   viewerListNewUserThresholdLow |-> Field(config, "viewerListNewUserThresholdLow", DefaultThresholdLowPct),
   viewerListNewUserThresholdHigh |-> Field(config, "viewerListNewUserThresholdHigh", DefaultThresholdHighPct),
   autoAdjustRequestInterval |-> config.autoAdjustRequestInterval,
   autoAdjustTimeout |-> config.autoAdjustTimeout,
   viewerListAutoAdjust |-> config.viewerListAutoAdjust]

\* A message's config: every numeric property absent unless set; the three toggles
\* are undefined (falsy) unless set.  malformed: the message carries no config object.
EmptyConfig ==
  [malformed |-> FALSE,
   refreshInterval |-> Absent, requestInterval |-> Absent, timeoutDuration |-> Absent,
   batchSize |-> Absent, concurrentUserInfoBatches |-> Absent,
   viewerListConcurrentCallsInitial |-> Absent, viewerListConcurrentCallsReduced |-> Absent,
   viewerListNewUserThresholdLow |-> Absent, viewerListNewUserThresholdHigh |-> Absent,
   autoAdjustRequestInterval |-> FALSE, autoAdjustTimeout |-> FALSE, viewerListAutoAdjust |-> FALSE]

NullConfig == [EmptyConfig EXCEPT !.malformed = TRUE]

\* The configs START_BACKGROUND_TRACKING is driven with: the settings page's defaults
\* (auto-adjust on), a user-chosen 2 s request interval with auto-adjust on, a static
\* interval, and a message without config.
StartConfigs ==
  { [EmptyConfig EXCEPT !.autoAdjustRequestInterval = TRUE, !.autoAdjustTimeout = TRUE],
    [EmptyConfig EXCEPT !.autoAdjustRequestInterval = TRUE, !.requestInterval = 2000],
    EmptyConfig,
    NullConfig }

(* ----------------------------- intervals ------------------------------ *)
NoIntervals == [n \in TimerNames |-> [status |-> "none", ms |-> 0]]

\* ClearInterval, were the old timer left running when its Map entry is replaced
LeavesTimerRunning(W, s, n) == [W EXCEPT !.sess[s].intervals[n].status = "cleared"]

\* clearInterval(id): cancels the timer unless it was cancelled before.  The Map
\* entry itself stays (status "cleared" = a stale handle still stored in the Map).
ClearInterval(W, s, n) ==
  IF W.sess[s].intervals[n].status = "live"
  THEN [W EXCEPT !.timers[s][n] = @ - 1, !.sess[s].intervals[n].status = "cleared"]
  ELSE W

\* session.intervals.set(n, setInterval(cb, ms))
SetInterval(W, s, n, ms) ==
  [W EXCEPT !.timers[s][n] = @ + 1, !.sess[s].intervals[n] = [status |-> "live", ms |-> ms]]

RECURSIVE ClearEach(_, _, _)
ClearEach(W, s, names) ==
  IF names = {} THEN W
  ELSE LET n == CHOOSE x \in names : TRUE
       IN ClearEach(ClearInterval(W, s, n), s, names \ {n})

\* for (const [name, intervalId] of session.intervals) clearInterval(intervalId)
ClearSessionIntervals(W, s) ==
  ClearEach(W, s, {n \in TimerNames : W.sess[s].intervals[n].status # "none"})

(* ------------------------------ sessions ------------------------------ *)
EmptyViewers == [u \in {} |-> 0]

\* The session object startBackgroundTracking builds.  firstFailure/lastFailure: 0 is null.
\* pendingUserInfo is a Set, kept in insertion order; userInfoBatches holds `batches`
\* of the running backgroundFetchUserInfo call, from the batch in progress onwards.
NewSession(ch, tab, cfg) ==
  [channelName |-> ch, tabId |-> tab, config |-> cfg, intervals |-> NoIntervals,
   viewers |-> EmptyViewers, pendingUserInfo |-> <<>>, userInfoBatches |-> <<>>,
   totalRequests |-> 0, viewerCount |-> 0, authenticatedCount |-> 0,
   viewerListConcurrentCalls |-> cfg.viewerListConcurrentCallsInitial,
   recentNewUserCounts |-> <<>>,
   requestLocks |-> [viewerList |-> FALSE, viewerCount |-> FALSE, userInfo |-> FALSE],
   communicationFailures |-> [count |-> 0, firstFailure |-> 0, lastFailure |-> 0],
   isActive |-> TRUE, paused |-> FALSE]

\* A suspended async operation.  type: "fetch" (awaiting an accessor), "push" (awaiting
\* sendTrackingUpdate's transports), "ping" (awaiting the health ping), "timeout" (the
\* 1 s setTimeout of setupBackgroundIntervals).  op: which operation it belongs to.
\* caller: "timer", "initial" (the setTimeout chain) or "resume" (the RESUME chain).
\* request: the gateway request whose promise the accessor awaits, where the view
\* follows it through the gateway (0: it does not).
Task(type, s, op, caller) ==
  [type |-> type, sid |-> s, op |-> op, caller |-> caller, request |-> 0]

Awaiting(t, id) == [t EXCEPT !.request = id]

(* ------------------------- effective interval ------------------------- *)
\* calculateAutoRequestInterval; 0 stands for null
CalculateAutoRequestInterval(totalAuthenticatedCount) ==
  IF totalAuthenticatedCount = 0 THEN 0
  ELSE IF totalAuthenticatedCount < 1000 THEN 5000
  ELSE IF totalAuthenticatedCount < 5000 THEN 2000
  ELSE 1000

CalculateEffectiveRequestInterval(session) ==
  IF ~session.config.autoAdjustRequestInterval THEN session.config.requestInterval
  ELSE LET calculatedInterval == CalculateAutoRequestInterval(session.authenticatedCount)
       IN IF calculatedInterval # 0 THEN calculatedInterval ELSE session.config.requestInterval

\* calculateEffectiveIntervalForCount, were it to use the tiers of the setup path
IntervalForCountAsAtSetup(session, authenticatedCount) ==
  CalculateEffectiveRequestInterval([session EXCEPT !.authenticatedCount = authenticatedCount])

CalculateEffectiveIntervalForCount(session, authenticatedCount) ==
  IF ~session.config.autoAdjustRequestInterval THEN session.config.requestInterval
  ELSE IF authenticatedCount = 0 THEN session.config.requestInterval
  ELSE IF authenticatedCount < 500 THEN 5000
  ELSE IF authenticatedCount < 1000 THEN 2000
  ELSE 1000

(* ----------------------------- supervisor ----------------------------- *)
\* this.trackingSessions.get(channelName); 0 = undefined
GetSession(W, ch) == W.reg[ch]

\* stopBackgroundTracking(channelName): always answers success.  `by` only feeds the
\* history variable stoppedBy.
StopBackgroundTracking(W, ch, by) ==
  LET s == GetSession(W, ch)
  IN IF s = 0 THEN W
     ELSE [ClearSessionIntervals(W, s) EXCEPT !.reg[ch] = 0, !.by[s] = by]

RECURSIVE SeqBySid(_, _)
SeqBySid(reg, chans) ==
  IF chans = {} THEN <<>>
  ELSE LET ch == CHOOSE c \in chans : \A d \in chans : reg[c] <= reg[d]
       IN <<ch>> \o SeqBySid(reg, chans \ {ch})

\* ExistingSessions, were the head of startBackgroundTracking not to look at the registry
NoExistingSessions(reg) == <<>>

\* Array.from(this.trackingSessions.keys()): the registered channels in insertion order
ExistingSessions(reg) == SeqBySid(reg, {ch \in Channels : reg[ch] # 0})

\* the loop at the head of startBackgroundTracking: stop each existing session, then
\* look it up again in the registry and notify its tab when it belongs to another tab
RECURSIVE StopExisting(_, _, _, _)
StopExisting(W, chans, newChannel, tabId) ==
  IF chans = <<>> THEN W
  ELSE LET existingChannel == Head(chans)
           W1 == StopBackgroundTracking(W, existingChannel, "start")
           existingSession == GetSession(W1, existingChannel)
           W2 == IF existingSession # 0 /\ W1.sess[existingSession].tabId # tabId
                 THEN [W1 EXCEPT !.notes = @ \cup
                         {[tabId |-> W1.sess[existingSession].tabId,
                           stoppedChannel |-> existingChannel, newChannel |-> newChannel]}]
                 ELSE W1
       IN StopExisting(W2, Tail(chans), newChannel, tabId)

\* setupBackgroundIntervals: the six setInterval calls (the setTimeout is a task)
SetupBackgroundIntervals(W, s) ==
  LET session == W.sess[s]
      W1 == SetInterval(W, s, "viewerList", CalculateEffectiveRequestInterval(session))
      W2 == SetInterval(W1, s, "viewerCount", ViewerCountIntervalMs)
      W3 == SetInterval(W2, s, "userInfo", session.config.refreshInterval)
      W4 == SetInterval(W3, s, "cleanup", CleanupIntervalMs)
      W5 == SetInterval(W4, s, "apiStatus", ApiStatusIntervalMs)
  IN SetInterval(W5, s, "healthCheck", HealthCheckIntervalMs)

NextSid == Cardinality(DOMAIN sessions) + 1

\* START_BACKGROUND_TRACKING(channelName, config, sender.tab.id)
StartBackgroundTracking(ch, config, tab) ==
  LET W1 == StopExisting(World, ExistingSessions(trackingSessions), ch, tab)
      s == NextSid
  IN /\ UNCHANGED <<now, gwVars, roster, accessor>>
     /\ IF config.malformed
        THEN \* `config.refreshInterval` throws; the catch answers the failure
             /\ Apply(W1)
             /\ response' = [Resp("START", ch, tab, 0, FALSE) EXCEPT !.displaced = RegisteredSids]
        ELSE /\ LET W2 == [W1 EXCEPT !.sess = @ @@ (s :> NewSession(ch, tab, SessionConfig(config))),
                                     !.timers = @ @@ (s :> [n \in TimerNames |-> 0]),
                                     !.by = @ @@ (s :> "none"),
                                     !.reg[ch] = s,
                                     !.tasks = @ (+) SetToBag({Task("timeout", s, "initial", "initial")})]
                IN Apply(SetupBackgroundIntervals(W2, s))
             /\ response' = [Resp("START", ch, tab, s, TRUE) EXCEPT !.displaced = RegisteredSids]

\* STOP_BACKGROUND_TRACKING(channelName)
StopCommand(ch) ==
  /\ Apply(StopBackgroundTracking(World, ch, "stop"))
  /\ response' = Resp("STOP", ch, 0, trackingSessions[ch], TRUE)
  /\ UNCHANGED <<now, gwVars, roster, accessor>>

\* PAUSE_BACKGROUND_TRACKING(channelName)
PauseBackgroundTracking(ch) ==
  LET s == trackingSessions[ch]
  IN /\ sessions' = IF s = 0 THEN sessions ELSE [sessions EXCEPT ![s].paused = TRUE]
     /\ response' = Resp("PAUSE", ch, 0, s, s # 0)
     /\ UNCHANGED <<trackingSessions, liveTimers, tasks, notifications, stoppedBy, now, gwVars, roster, accessor>>

\* UPDATE_TRACKING_CONFIG(channelName, config): the handler calls
\* this.updateTrackingConfig, which BackgroundService does not define; the TypeError is
\* caught by handleMessage, which answers the failure
UpdateTrackingConfig(ch, config) ==
  /\ response' = Resp("UPDATE_TRACKING_CONFIG", ch, 0, trackingSessions[ch], FALSE)
  /\ UNCHANGED <<svVars, now, gwVars, roster, accessor>>

\* a message whose type no case of handleMessage names: the default branch answers
UnknownMessage ==
  /\ response' = Resp("UNKNOWN", "", 0, 0, FALSE)
  /\ UNCHANGED <<svVars, now, gwVars, roster, accessor>>

RECURSIVE ClearAllOf(_, _)
ClearAllOf(W, sids) ==
  IF sids = {} THEN W
  ELSE LET s == CHOOSE x \in sids : TRUE
           W1 == ClearSessionIntervals(W, s)
       IN ClearAllOf([W1 EXCEPT !.sess[s].intervals = NoIntervals], sids \ {s})

\* clearAllIntervals(): for every session in the registry, clear its timers and
\* empty its intervals Map
ClearAllIntervals(W) == ClearAllOf(W, {W.reg[ch] : ch \in {c \in Channels : W.reg[c] # 0}})

\* ApiManager.clearQueue()
ClearQueue ==
  /\ requestQueue' = <<>>
  /\ isProcessing' = FALSE

\* FORCE_STOP_ALL_TRACKING: trackingSessions.clear(), clearQueue(), clearAllIntervals()
ForceStopAllTracking ==
  LET W1 == [World EXCEPT !.reg = [ch \in Channels |-> 0],
                          !.by = [s \in DOMAIN @ |-> IF s \in RegisteredSids THEN "force" ELSE @[s]]]
  IN /\ Apply(ClearAllIntervals(W1))
     /\ ClearQueue
     /\ response' = Resp("FORCE_STOP_ALL", "", 0, 0, TRUE)
     /\ UNCHANGED <<now, drains, promises, dataStats, requestCount, executed, roster, accessor>>

(* ----------------------- adaptive concurrency ------------------------- *)
MinSamples == 5
SampleWindow == 10
MaxSamplesKept == 20

\* `x || d`
OrDefault(x, d) == IF x = 0 THEN d ELSE x

RECURSIVE SumField(_, _)
SumField(samples, f) ==
  IF samples = <<>> THEN 0 ELSE Head(samples)[f] + SumField(Tail(samples), f)

\* recentNewUserCounts.slice(-10)
RecentCounts(samples) ==
  IF Len(samples) <= SampleWindow THEN samples
  ELSE SubSeq(samples, Len(samples) - SampleWindow + 1, Len(samples))

\* newUserRate < threshold and newUserRate > threshold, thresholds in percent.
\* avgNewUsers / avgTotalViewers is sumNew / sumTotal (both averages divide by the
\* same length); the rate is 0 when avgTotalViewers is 0.
RateBelow(samples, pct) ==
  LET sn == SumField(RecentCounts(samples), "newUsers")
      st == SumField(RecentCounts(samples), "totalViewers")
  IN IF st > 0 THEN sn * 100 < pct * st ELSE 0 < pct

RateAbove(samples, pct) ==
  LET sn == SumField(RecentCounts(samples), "newUsers")
      st == SumField(RecentCounts(samples), "totalViewers")
  IN IF st > 0 THEN sn * 100 > pct * st ELSE 0 > pct

\* CalculateOptimalViewerListConcurrency, were it to keep whatever value is current
KeepCurrentConcurrency(session) == session.viewerListConcurrentCalls

\* calculateOptimalViewerListConcurrency(session)
CalculateOptimalViewerListConcurrency(session) ==
  LET config == session.config
      currentCalls == OrDefault(session.viewerListConcurrentCalls,
                                OrDefault(config.viewerListConcurrentCallsInitial, DefaultCallsInitial))
      reducedCalls == OrDefault(config.viewerListConcurrentCallsReduced, DefaultCallsReduced)
      initialCalls == OrDefault(config.viewerListConcurrentCallsInitial, DefaultCallsInitial)
      thresholdLow == OrDefault(config.viewerListNewUserThresholdLow, DefaultThresholdLowPct)
      thresholdHigh == OrDefault(config.viewerListNewUserThresholdHigh, DefaultThresholdHighPct)
  IN IF ~config.viewerListAutoAdjust THEN currentCalls
     ELSE IF Len(session.recentNewUserCounts) < MinSamples THEN initialCalls
     ELSE IF RateBelow(session.recentNewUserCounts, thresholdLow) /\ currentCalls > reducedCalls
          THEN reducedCalls
     ELSE IF RateAbove(session.recentNewUserCounts, thresholdHigh) /\ currentCalls < initialCalls
          THEN initialCalls
     ELSE currentCalls

\* updateViewerListConcurrency(session, newUsersCount, totalViewersCount)
UpdateViewerListConcurrency(session, newUsersCount, totalViewersCount) ==
  LET pushed == Append(session.recentNewUserCounts,
                       [newUsers |-> newUsersCount, totalViewers |-> totalViewersCount])
      kept == IF Len(pushed) > MaxSamplesKept THEN Tail(pushed) ELSE pushed
      s1 == [session EXCEPT !.recentNewUserCounts = kept]
      optimalCalls == CalculateOptimalViewerListConcurrency(s1)
  IN IF optimalCalls # s1.viewerListConcurrentCalls
     THEN [s1 EXCEPT !.viewerListConcurrentCalls = optimalCalls]
     ELSE s1

\* One roster result is accounted for: updateViewerListConcurrency(session, newUsersCount,
\* totalViewersCount) as backgroundFetchViewerList calls it.  The first roster of a
\* session meets an empty viewer map, so every viewer of it is new.
RecordSample(s, newUsersCount, totalViewersCount) ==
  /\ newUsersCount <= totalViewersCount
  /\ sessions[s].recentNewUserCounts = <<>> => newUsersCount = totalViewersCount
  /\ sessions' = [sessions EXCEPT ![s] = UpdateViewerListConcurrency(@, newUsersCount, totalViewersCount)]
  /\ response' = NoResponse
  /\ UNCHANGED <<trackingSessions, liveTimers, tasks, notifications, stoppedBy, now, gwVars, roster, accessor>>

(* -------------------------- effective timeout ------------------------- *)
\* calculateAutoTimeout; 0 stands for null.  (timeoutMinutes + 1) * 60000 with
\* timeoutMinutes 0.75, 1, 1.5 or 2 + floor((n - 15000) / 10000) * 0.167 (0.167 min = 10020 ms)
CalculateAutoTimeout(totalAuthenticatedCount) ==
  IF totalAuthenticatedCount = 0 THEN 0
  ELSE IF totalAuthenticatedCount < 1000 THEN 45000 + 60000
  ELSE IF totalAuthenticatedCount < 5000 THEN 60000 + 60000
  ELSE IF totalAuthenticatedCount < 15000 THEN 90000 + 60000
  ELSE 120000 + ((totalAuthenticatedCount - 15000) \div 10000) * 10020 + 60000

CalculateEffectiveTimeout(session) ==
  IF ~session.config.autoAdjustTimeout THEN session.config.timeoutDuration
  ELSE LET calculatedTimeout == CalculateAutoTimeout(session.authenticatedCount)
       IN IF calculatedTimeout # 0 THEN calculatedTimeout ELSE session.config.timeoutDuration

(* ------------------------- roster timer cadence ----------------------- *)
\* session.intervals.has('viewerList')
HasViewerListInterval(session) == session.intervals["viewerList"].status # "none"

\* CheckAndUpdateRequestInterval, were it never to touch the timer
NeverUpdateRequestInterval(W, s, oldAuthenticatedCount) == W

\* checkAndUpdateRequestInterval(session, oldAuthenticatedCount)
CheckAndUpdateRequestInterval(W, s, oldAuthenticatedCount) ==
  LET session == W.sess[s]
      oldEffectiveInterval == CalculateEffectiveIntervalForCount(session, oldAuthenticatedCount)
      newEffectiveInterval == CalculateEffectiveIntervalForCount(session, session.authenticatedCount)
  IN IF ~session.config.autoAdjustRequestInterval THEN W
     ELSE IF oldEffectiveInterval = newEffectiveInterval THEN W
     ELSE IF HasViewerListInterval(session)
          THEN SetInterval(ClearInterval(W, s, "viewerList"), s, "viewerList", newEffectiveInterval)
     ELSE W

(* --------------------------- fetch operations ------------------------- *)
\* the roster array lists its usernames in ascending order
RECURSIVE InOrder(_)
InOrder(S) ==
  IF S = {} THEN <<>>
  ELSE LET u == CHOOSE x \in S : \A y \in S : x <= y IN <<u>> \o InOrder(S \ {u})

Elements(seq) == {seq[i] : i \in DOMAIN seq}

\* Set.add for each element of `added`, Set.delete for each element of `deleted`
RECURSIVE SetAdd(_, _)
SetAdd(seq, added) ==
  IF added = <<>> THEN seq
  ELSE SetAdd(IF Head(added) \in Elements(seq) THEN seq ELSE Append(seq, Head(added)), Tail(added))

SetDelete(seq, deleted) == SelectSeq(seq, LAMBDA u : u \notin deleted)

\* `for (let i = 0; i < length; i += batchSize)` comes to an end: after k rounds i is
\* k * batchSize, and a step that is not positive never takes i to length
LoopEnds(length, batchSize) == \E k \in 0..length : k * batchSize >= length

\* pendingUsers.slice(i, i + batchSize) for i = 0, batchSize, ..., for a loop that ends
RECURSIVE Batches(_, _)
Batches(pendingUsers, batchSize) ==
  IF pendingUsers = <<>> THEN <<>>
  ELSE IF Len(pendingUsers) <= batchSize THEN <<pendingUsers>>
  ELSE <<SubSeq(pendingUsers, 1, batchSize)>>
         \o Batches(SubSeq(pendingUsers, batchSize + 1, Len(pendingUsers)), batchSize)

AddTask(W, t) == [W EXCEPT !.tasks = @ (+) SetToBag({t})]
RemoveTask(W, t) == [W EXCEPT !.tasks = @ (-) SetToBag({t})]

\* IsPaused, were the fetch operations not to look at the flag
NeverPaused(session) == FALSE

\* the guards at the head of backgroundFetchViewerList / ViewerCount / UserInfo
IsPaused(session) == session.paused

\* IsLocked, were the fetch operations not to look at their lock
NeverLocked(session, op) == FALSE

\* `if (session.requestLocks.x) return`
IsLocked(session, op) == session.requestLocks[op]

RECURSIVE BeginFetch(_, _, _, _)
RECURSIVE Continue(_, _, _, _)

\* Continue, were resumeBackgroundTracking to reply as soon as its roster fetch returns
ContinueWithoutCountFetch(W, s, op, caller) ==
  IF caller = "resume"
  THEN [W EXCEPT !.resp = Resp("RESUME", W.sess[s].channelName, 0, s, TRUE)]
  ELSE W

\* What the caller does once `await this.backgroundFetchX(session)` returns: a timer
\* callback ends; the setTimeout of setupBackgroundIntervals and
\* resumeBackgroundTracking go on to the count fetch, and resume then replies.
Continue(W, s, op, caller) ==
  IF caller = "timer" THEN W
  ELSE IF op = "viewerList" THEN BeginFetch(W, s, "viewerCount", caller)
  ELSE IF caller = "resume"
       THEN [W EXCEPT !.resp = Resp("RESUME", W.sess[s].channelName, 0, s, TRUE)]
  ELSE W

\* backgroundFetchViewerList / backgroundFetchViewerCount up to the accessor's await
BeginFetch(W, s, op, caller) ==
  IF IsPaused(W.sess[s]) THEN Continue(W, s, op, caller)
  ELSE IF IsLocked(W.sess[s], op) THEN Continue(W, s, op, caller)
  ELSE AddTask([W EXCEPT !.sess[s].requestLocks[op] = TRUE], Task("fetch", s, op, caller))

\* backgroundFetchViewerList from the accessor's result to the await of the push.  Of a
\* viewer's record the model keeps lastSeen and whether the profile fields are set.
ProcessViewerList(W, s, viewers, totalAuthenticatedCount) ==
  LET session == W.sess[s]
      newUsers == viewers \ DOMAIN session.viewers
      seen == [u \in DOMAIN session.viewers \cup viewers |->
                 IF u \in newUsers THEN [lastSeen |-> now, enriched |-> FALSE]
                 ELSE IF u \in viewers THEN [session.viewers[u] EXCEPT !.lastSeen = now]
                 ELSE session.viewers[u]]
      s1 == [session EXCEPT !.viewers = seen,
                            !.pendingUserInfo = SetAdd(@, InOrder(newUsers))]
      s2 == UpdateViewerListConcurrency(s1, Cardinality(newUsers), Cardinality(viewers))
      oldAuthenticatedCount == session.authenticatedCount
      s3 == [s2 EXCEPT !.totalRequests = @ + 1, !.authenticatedCount = totalAuthenticatedCount]
  IN CheckAndUpdateRequestInterval([W EXCEPT !.sess[s] = s3], s, oldAuthenticatedCount)

\* PushSucceeded, were a delivered push to leave the failure tracking alone
PushSucceededKeepsFailures(W, s) == W

\* sendTrackingUpdate once a transport answered: reset the failure tracking
PushSucceeded(W, s) ==
  [W EXCEPT !.sess[s].communicationFailures = [count |-> 0, firstFailure |-> 0, lastFailure |-> 0]]

\* sendTrackingUpdate once both transports failed
PushFailed(W, s) ==
  LET cf == W.sess[s].communicationFailures
      first == IF cf.firstFailure = 0 THEN now ELSE cf.firstFailure
      W1 == [W EXCEPT !.sess[s].communicationFailures =
                         [count |-> cf.count + 1, firstFailure |-> first, lastFailure |-> now]]
  IN IF first # 0 /\ now - first > CommFailureWindowMs
     THEN StopBackgroundTracking(W1, W1.sess[s].channelName, "comm")
     ELSE W1

\* backgroundFetchUserInfo up to the await of getUserInfo for the first batch
BeginUserInfo(W, s) ==
  LET session == W.sess[s]
      batches == Batches(session.pendingUserInfo, session.config.batchSize)
  IN IF IsPaused(session) \/ IsLocked(session, "userInfo") \/ session.pendingUserInfo = <<>> THEN W
     ELSE AddTask([W EXCEPT !.sess[s].requestLocks["userInfo"] = TRUE,
                            !.sess[s].userInfoBatches = batches],
                  Task("fetch", s, "userInfo", "timer"))

\* backgroundFetchUserInfo after `await this.updateViewersWithUserInfo(...)`: drop the
\* batch from the pending set, go on to the next batch or release the lock
NextUserInfoBatch(W, s) ==
  LET session == W.sess[s]
      batch == Elements(Head(session.userInfoBatches))
      W1 == [W EXCEPT !.sess[s].pendingUserInfo = SetDelete(@, batch),
                      !.sess[s].userInfoBatches = Tail(@)]
  IN IF W1.sess[s].userInfoBatches # <<>>
     THEN AddTask(W1, Task("fetch", s, "userInfo", "timer"))
     ELSE [W1 EXCEPT !.sess[s].requestLocks["userInfo"] = FALSE]

\* BackgroundCleanupViewers, were the sweep to leave the pending set alone
CleanupViewersOnly(W, s) ==
  LET session == W.sess[s]
      removedUsernames == {u \in DOMAIN session.viewers :
                             now - session.viewers[u].lastSeen > CalculateEffectiveTimeout(session)}
      W1 == [W EXCEPT !.sess[s].viewers = [u \in DOMAIN @ \ removedUsernames |-> @[u]]]
  IN IF removedUsernames # {} THEN AddTask(W1, Task("push", s, "cleanup", "timer")) ELSE W1

\* backgroundCleanupViewers(session): the synchronous sweep and, when it removed
\* somebody, the CLEANUP_UPDATE push it does not wait for
BackgroundCleanupViewers(W, s) ==
  LET session == W.sess[s]
      effectiveTimeout == CalculateEffectiveTimeout(session)
      removedUsernames == {u \in DOMAIN session.viewers :
                             now - session.viewers[u].lastSeen > effectiveTimeout}
      W1 == [W EXCEPT !.sess[s].viewers = [u \in DOMAIN @ \ removedUsernames |-> @[u]],
                      !.sess[s].pendingUserInfo = SetDelete(@, removedUsernames)]
  IN IF removedUsernames # {} THEN AddTask(W1, Task("push", s, "cleanup", "timer")) ELSE W1

\* the code after `await this.sendTrackingUpdate(...)`: the roster and count fetches
\* release their lock (finally) and return to their caller, the enrichment fetch
\* goes on with its batches
AfterPush(W, t) ==
  IF t.op \in {"viewerList", "viewerCount"}
  THEN Continue([W EXCEPT !.sess[t.sid].requestLocks[t.op] = FALSE], t.sid, t.op, t.caller)
  ELSE IF t.op = "userInfo" THEN NextUserInfoBatch(W, t.sid)
  ELSE W

(* ------------------------------ gateway ------------------------------- *)
\* the priority argument of makeRequest (lower number = higher priority)
Priorities == {1, 2, 3}

\* the priority each accessor hands to makeRequest: getViewerCount, the first page and
\* the follow-up batches of getViewerListParallel, and getUserInfo's default, which
\* backgroundFetchUserInfo leaves in place
ViewerCountPriority == 1
BatchPriority == 2
UserInfoPriority == 3

\* InitialPagePriority, were the first page to go out like the follow-up pages
FirstPageAtBatchPriority == BatchPriority

InitialPagePriority == 1

\* The ApiManager fields the queue code works on, threaded through the operators below.
Gateway == [queue |-> requestQueue, processing |-> isProcessing, drains |-> drains,
            promises |-> promises, stats |-> dataStats, count |-> requestCount,
            executed |-> executed]

ApplyGateway(G) ==
  /\ requestQueue' = G.queue
  /\ isProcessing' = G.processing
  /\ drains' = G.drains
  /\ promises' = G.promises
  /\ dataStats' = G.stats
  /\ requestCount' = G.count
  /\ executed' = G.executed

\* SortByPriority, were makeRequest to leave the queue in submission order
KeepsSubmissionOrder(q, ps) == q

\* requestQueue.sort((a, b) => a.priority - b.priority): stable, ascending
RECURSIVE SortByPriority(_, _)
SortByPriority(q, ps) ==
  IF ps = {} THEN <<>>
  ELSE LET p == CHOOSE x \in ps : \A y \in ps : x <= y
       IN SelectSeq(q, LAMBDA r : r.priority = p) \o SortByPriority(q, ps \ {p})

\* dataStats.recentRequests.filter(req => req.timestamp > oneMinuteAgo).length
RequestsInLastMinute(stats) ==
  Cardinality({i \in DOMAIN stats.recentRequests : stats.recentRequests[i] > now - requestWindow})

\* trackDataUsage: count the call, remember its time, keep the newest entries only
TrackDataUsage(stats) ==
  LET pushed == Append(stats.recentRequests, now)
  IN [totalApiCalls |-> stats.totalApiCalls + 1,
      recentRequests |-> IF Len(pushed) > RecentRequestsKept THEN Tail(pushed) ELSE pushed]

\* A running processQueue call, suspended in processConcurrentRequests at the await of
\* a batch (`pending`: the fetches not yet settled) or of the 1 s wait (`waiting`), or,
\* the loop having ended, at its own `await this.processConcurrentRequests()` (`returned`).
Drain(waiting, pending, returned) == [waiting |-> waiting, pending |-> pending, returned |-> returned]

AddDrain(G, d) == [G EXCEPT !.drains = @ (+) SetToBag({d})]
RemoveDrain(G, d) == [G EXCEPT !.drains = @ (-) SetToBag({d})]

\* processConcurrentRequests from the head of its loop to its next await (the batch's
\* fetches, issued at once by executeConcurrentRequests, or the 1 s wait) or to its
\* end, where the caller's await takes over
ProcessConcurrentRequests(G) ==
  IF G.queue = <<>> THEN AddDrain(G, Drain(FALSE, {}, TRUE))
  ELSE LET requestsInLastMinute == RequestsInLastMinute(G.stats)
           maxConcurrent == Min(Min(concurrentUserInfoBatches, maxRequests - requestsInLastMinute),
                                Len(G.queue))
           concurrentRequests == {G.queue[i].id : i \in 1..maxConcurrent}
       IN IF requestsInLastMinute >= maxRequests
          THEN AddDrain(G, Drain(TRUE, {}, FALSE))
          ELSE IF maxConcurrent <= 0 THEN AddDrain(G, Drain(FALSE, {}, TRUE))
          ELSE AddDrain([G EXCEPT !.queue = SubSeq(@, maxConcurrent + 1, Len(@)),
                                  !.promises = [r \in DOMAIN @ |->
                                                  IF r \in concurrentRequests THEN "executing" ELSE @[r]],
                                  !.executed = @ \o [i \in 1..maxConcurrent |-> now]],
                        Drain(FALSE, concurrentRequests, FALSE))

\* ProcessQueueReturns, were processQueue to end without looking at the queue again
ReturnsWithoutRestart(G) == [G EXCEPT !.processing = FALSE]

\* processQueue up to `await this.processConcurrentRequests()`
ProcessQueue(G) ==
  IF G.processing \/ G.queue = <<>> THEN G
  ELSE ProcessConcurrentRequests([G EXCEPT !.processing = TRUE])

\* processQueue after `await this.processConcurrentRequests()`: reset the flag, and
\* start over when the queue has entries
ProcessQueueReturns(G) ==
  LET G1 == [G EXCEPT !.processing = FALSE]
  IN IF G1.queue # <<>> THEN ProcessQueue(G1) ELSE G1

\* the request that the next makeRequest call creates
NextRequest == Cardinality(DOMAIN promises) + 1

\* makeRequest(url, options, priority), the request being number id: push, sort, and
\* start processing if not already running
Submit(G, id, priority) ==
  LET G1 == [G EXCEPT
               !.queue = SortByPriority(Append(@, [id |-> id, priority |-> priority]), Priorities),
               !.promises = @ @@ (id :> "pending")]
  IN IF ~G1.processing THEN ProcessQueue(G1) ELSE G1

\* makeRequest(url, options, priority)
MakeRequest(priority) ==
  LET id == NextRequest
  IN /\ id <= MaxRequestsMade
     /\ ApplyGateway(Submit(Gateway, id, priority))
     /\ response' = NoResponse
     /\ UNCHANGED <<svVars, now, roster, accessor>>

\* ExecuteRequestSettles, were a failed fetch to reject every request in execution
RejectsWholeBatch(G, id, outcome) ==
  IF outcome = "ok"
  THEN [G EXCEPT !.count = @ + 1, !.stats = TrackDataUsage(@), !.promises[id] = "resolved"]
  ELSE [G EXCEPT !.promises = [r \in DOMAIN @ |-> IF @[r] = "executing" THEN "rejected" ELSE @[r]]]

\* executeRequest from the settled fetch to request.resolve / request.reject
ExecuteRequestSettles(G, id, outcome) ==
  IF outcome = "ok"
  THEN [G EXCEPT !.count = @ + 1, !.stats = TrackDataUsage(@), !.promises[id] = "resolved"]
  ELSE IF outcome = "httpError"
  THEN [G EXCEPT !.count = @ + 1, !.promises[id] = "rejected"]
  ELSE [G EXCEPT !.promises[id] = "rejected"]

\* A suspended processConcurrentRequests loop d goes on: one fetch of its batch settles
\* (the loop itself resumes once the whole batch has), or its 1 s wait is over.
ProcessConcurrentRequestsResumes(d, id, outcome) ==
  /\ BagIn(d, drains) /\ ~d.returned
  /\ IF d.waiting
     THEN /\ id = 0 /\ outcome = "timer"
          /\ ApplyGateway(ProcessConcurrentRequests(RemoveDrain(Gateway, d)))
     ELSE /\ id \in d.pending /\ outcome \in {"ok", "httpError", "networkError"}
          /\ LET G1 == ExecuteRequestSettles(RemoveDrain(Gateway, d), id, outcome)
                 rest == d.pending \ {id}
             IN ApplyGateway(IF rest = {} THEN ProcessConcurrentRequests(G1)
                             ELSE AddDrain(G1, [d EXCEPT !.pending = rest]))
  /\ response' = NoResponse
  /\ UNCHANGED <<svVars, now, roster, accessor>>

\* A processQueue call d whose processConcurrentRequests has ended goes on
ProcessQueueResumes(d) ==
  /\ BagIn(d, drains) /\ d.returned
  /\ ApplyGateway(ProcessQueueReturns(RemoveDrain(Gateway, d)))
  /\ response' = NoResponse
  /\ UNCHANGED <<svVars, now, roster, accessor>>

(* --------------------------- roster accessor -------------------------- *)
pageSize == 100

\* The backend of one channel: logged-in viewers 1..total in RECENTLY_ACTIVE order, the
\* cursor of an edge being its position.  A CommunityTab query answers with the `limit`
\* edges that follow the cursor (0 is the empty cursor "").
CommunityEdges(total, cursor, limit) ==
  [i \in 1..Max(0, Min(limit, total - cursor)) |-> cursor + i]

\* one getViewerListParallel call: state "idle" (none yet), "initial" (awaiting the
\* first page), "batch" (awaiting the batch that starts at payload `next`), "done"
\* initial: how the first page was answered; failed: a request was rejected; missing: an
\* answer lacked a field; priorities: the priority of each makeRequest call so far
NoRoster == [state |-> "idle", total |-> 0, concurrentCalls |-> 0, viewers |-> <<>>,
             payloads |-> <<>>, next |-> 0, totalAuthenticatedCount |-> 0, failed |-> FALSE,
             initial |-> "none", missing |-> FALSE, priorities |-> <<>>]

\* Math.ceil(remainingViewers / pageSize)
PagesNeeded(remainingViewers) == (remainingViewers + pageSize - 1) \div pageSize

\* Array.from(new Set(viewers))
Distinct(viewers) == {viewers[i] : i \in DOMAIN viewers}

RECURSIVE Concat(_, _, _)
\* viewers.concat(...) over the responses of one batch: payloads[from..to]
Concat(r, from, to) ==
  IF from > to THEN <<>>
  ELSE CommunityEdges(r.total, r.payloads[from], pageSize) \o Concat(r, from + 1, to)

\* getViewerListParallel(channelName, concurrentCalls) up to the await of the first page
GetViewerListParallel(total, concurrentCalls) ==
  /\ roster.state \in {"idle", "done"}
  /\ roster' = [NoRoster EXCEPT !.state = "initial", !.total = total,
                                !.concurrentCalls = concurrentCalls,
                                !.priorities = <<InitialPagePriority>>]
  /\ response' = NoResponse
  /\ UNCHANGED <<svVars, gwVars, now, accessor>>

\* How the gateway answers the first page: the request is rejected, or it resolves
\* with the page ("resolved"), with `user: null` ("noUser"), or with a community object
\* that lacks edges ("noEdges") or totalCount ("noTotalCount").
InitialOutcomes == {"resolved", "rejected", "noUser", "noEdges", "noTotalCount"}
\* the same for a batch of follow-up pages
BatchOutcomes == {"resolved", "rejected", "noEdges"}

\* the first page arrives (or its request is rejected): return it when it is the whole
\* roster, else build the follow-up payloads and send the first batch of them
InitialPageSettles(outcome) ==
  /\ roster.state = "initial"
  /\ LET \* `initialResponse[0]?.data?.user?.community?.edges || []` and `...totalCount || 0`
         initialEdges == IF outcome \in {"noUser", "noEdges"} THEN <<>>
                         ELSE CommunityEdges(roster.total, 0, pageSize)
         initialCursor == IF Len(initialEdges) > 0 THEN initialEdges[Len(initialEdges)] ELSE 0
         totalAuthenticatedCount == IF outcome \in {"noUser", "noTotalCount"} THEN 0 ELSE roster.total
         remainingViewers == Max(0, totalAuthenticatedCount - Len(initialEdges))
         pagesNeeded == PagesNeeded(remainingViewers)
         r == [roster EXCEPT !.initial = outcome, !.missing = outcome \notin {"resolved", "rejected"}]
     IN roster' =
          IF outcome = "rejected"
          THEN [r EXCEPT !.state = "done", !.failed = TRUE]
          ELSE IF totalAuthenticatedCount <= 100 \/ initialCursor = 0
          THEN [r EXCEPT !.state = "done", !.viewers = initialEdges,
                         !.totalAuthenticatedCount = totalAuthenticatedCount]
          ELSE [r EXCEPT !.state = "batch", !.viewers = initialEdges, !.next = 1,
                         !.payloads = [i \in 1..pagesNeeded |-> initialCursor],
                         !.totalAuthenticatedCount = totalAuthenticatedCount,
                         !.priorities = Append(@, BatchPriority)]
  /\ response' = NoResponse
  /\ UNCHANGED <<svVars, gwVars, now, accessor>>

\* a batch of follow-up pages arrives (or its request is rejected)
BatchSettles(outcome) ==
  /\ roster.state = "batch"
  /\ LET batchSize == Min(roster.concurrentCalls, concurrentUserInfoBatches)
         last == Min(roster.next + batchSize - 1, Len(roster.payloads))
         viewers == IF outcome = "resolved"
                    THEN roster.viewers \o Concat(roster, roster.next, last)
                    ELSE roster.viewers
         stop == \/ outcome # "rejected" /\ Len(viewers) >= roster.totalAuthenticatedCount
                 \/ last >= Len(roster.payloads)
     IN roster' = [roster EXCEPT !.viewers = viewers,
                                 !.failed = @ \/ outcome = "rejected",
                                 !.missing = @ \/ outcome = "noEdges",
                                 !.next = last + 1,
                                 !.state = IF stop THEN "done" ELSE "batch",
                                 !.priorities = IF stop THEN @ ELSE Append(@, BatchPriority)]
  /\ response' = NoResponse
  /\ UNCHANGED <<svVars, gwVars, now, accessor>>

(* ---------------------- count and profile accessors ------------------- *)
\* What an accessor call came to: the promise it returned is resolved or rejected;
\* count is the value of getViewerCount, userInfo the list of getUserInfo (of a profile
\* the model keeps the username and whether createdAt is set).
Resolved(count, userInfo) == [settled |-> "resolved", count |-> count, userInfo |-> userInfo]
Rejected == [settled |-> "rejected", count |-> 0, userInfo |-> {}]

\* priority: the priority of the call's makeRequest, 0 when it made none
NoAccessor == [name |-> "none", usernames |-> <<>>,
               reply |-> [kind |-> "none", viewersCount |-> 0], result |-> Resolved(0, {}),
               priority |-> 0]

\* How the gateway answers getViewerCount: the request is rejected; it resolves with
\* the body `null`; with an object that lacks data, user or stream; or with a count.
CountReplies ==
  {[kind |-> k, viewersCount |-> 0] : k \in {"rejected", "null", "noData", "noUser", "noStream"}}
    \cup {[kind |-> "count", viewersCount |-> n] : n \in {0, 1500}}

\* GetViewerCount, were it to let a failed request through to its caller
GetViewerCountRethrows(reply) ==
  IF reply.kind \in {"rejected", "null"} THEN Rejected
  ELSE IF reply.kind \in {"noData", "noUser", "noStream"} THEN Resolved(0, {})
  ELSE Resolved(reply.viewersCount, {})

\* getViewerCount(channelName) from the settled makeRequest to its return:
\* `return response.data?.user?.stream?.viewersCount || 0`, and `return 0` in the catch,
\* which a rejected request and the TypeError of `null.data` both reach
GetViewerCount(reply) ==
  LET \* response.data?.user?.stream?.viewersCount, 0 standing for undefined
      viewersCount == IF reply.kind = "count" THEN reply.viewersCount ELSE 0
  IN IF reply.kind \in {"rejected", "null"} THEN Resolved(0, {})
     ELSE Resolved(OrDefault(viewersCount, 0), {})

\* How the gateway answers getUserInfo: the request is rejected; it resolves with
\* something that is not an array; with an item whose user is null; with profiles that
\* lack createdAt; or with complete profiles.
UserInfoReplies == {"rejected", "notArray", "noUser", "noCreatedAt", "profiles"}

\* getUserInfo(channelName, usernames) (both query shapes map the items alike):
\* [] for no usernames; `response.map(item => ({username: item.data.user.displayName,
\* ...}))`, and `return []` in the catch, which a rejected request and the TypeErrors
\* of `response.map` and `item.data.user.displayName` reach
GetUserInfo(usernames, kind) ==
  IF usernames = <<>> THEN Resolved(0, {})
  ELSE IF kind \in {"rejected", "notArray", "noUser"} THEN Resolved(0, {})
  ELSE Resolved(0, {[username |-> usernames[i], createdAt |-> kind = "profiles"] :
                      i \in DOMAIN usernames})

\* a getViewerCount call settles
GetViewerCountSettles(reply) ==
  /\ accessor' = [name |-> "getViewerCount", usernames |-> <<>>, reply |-> reply,
                  result |-> GetViewerCount(reply), priority |-> ViewerCountPriority]
  /\ response' = NoResponse
  /\ UNCHANGED <<svVars, gwVars, now, roster>>

\* a getUserInfo call settles
GetUserInfoSettles(usernames, kind) ==
  /\ accessor' = [name |-> "getUserInfo", usernames |-> usernames,
                  reply |-> [kind |-> kind, viewersCount |-> 0],
                  result |-> GetUserInfo(usernames, kind),
                  priority |-> IF usernames = <<>> THEN 0 ELSE UserInfoPriority]
  /\ response' = NoResponse
  /\ UNCHANGED <<svVars, gwVars, now, roster>>

(* ------------------------------- actions ------------------------------ *)
\* the viewerList timer fires
FireViewerList(s) ==
  /\ liveTimers[s]["viewerList"] > 0
  /\ sessions[s].totalRequests < MaxFetches
  /\ Apply(BeginFetch(World, s, "viewerList", "timer"))
  /\ response' = Ran("viewerList", s)
  /\ UNCHANGED <<now, gwVars, roster, accessor>>

\* the viewerCount timer fires
FireViewerCount(s) ==
  /\ liveTimers[s]["viewerCount"] > 0
  /\ Apply(BeginFetch(World, s, "viewerCount", "timer"))
  /\ response' = Ran("viewerCount", s)
  /\ UNCHANGED <<now, gwVars, roster, accessor>>

\* the setTimeout of setupBackgroundIntervals fires (1 s after the start)
InitialFetch(s) ==
  LET t == Task("timeout", s, "initial", "initial")
  IN /\ BagIn(t, tasks)
     /\ Apply(BeginFetch(RemoveTask(World, t), s, "viewerList", "initial"))
     /\ response' = NoResponse
     /\ UNCHANGED <<now, gwVars, roster, accessor>>

\* getViewerListParallel resolves: {viewers, totalAuthenticatedCount}
ViewerListDone(t, viewers, totalAuthenticatedCount) ==
  /\ BagIn(t, tasks) /\ t.type = "fetch" /\ t.op = "viewerList"
  /\ LET W1 == RemoveTask(World, t)
         W2 == ProcessViewerList(W1, t.sid, viewers, totalAuthenticatedCount)
     IN /\ Apply(AddTask(W2, Task("push", t.sid, "viewerList", t.caller)))
        /\ response' = NoResponse
  /\ UNCHANGED <<now, gwVars, roster, accessor>>

\* getViewerCount resolves
ViewerCountDone(t, count) ==
  /\ BagIn(t, tasks) /\ t.type = "fetch" /\ t.op = "viewerCount"
  /\ LET W1 == [RemoveTask(World, t) EXCEPT !.sess[t.sid].viewerCount = count]
     IN Apply(AddTask(W1, Task("push", t.sid, "viewerCount", t.caller)))
  /\ response' = NoResponse
  /\ UNCHANGED <<now, gwVars, roster, accessor>>

\* the viewerCount timer fires, the request of getViewerCount being followed through
\* the gateway: backgroundFetchViewerCount up to the await of makeRequest's promise
FireViewerCountRequest(s) ==
  LET t == Task("fetch", s, "viewerCount", "timer")
      W1 == BeginFetch(World, s, "viewerCount", "timer")
  IN /\ liveTimers[s]["viewerCount"] > 0
     /\ NextRequest <= MaxRequestsMade
     /\ IF CopiesIn(t, W1.tasks) > CopiesIn(t, tasks)
        THEN /\ Apply(AddTask(RemoveTask(W1, t), Awaiting(t, NextRequest)))
             /\ ApplyGateway(Submit(Gateway, NextRequest, ViewerCountPriority))
        ELSE /\ Apply(W1)
             /\ UNCHANGED gwVars
     /\ response' = Ran("viewerCount", s)
     /\ UNCHANGED <<now, roster, accessor>>

\* the promise that getViewerCount awaits has settled: the accessor returns the count
\* of the answer, or 0 from its catch
ViewerCountReturns(t, count) ==
  /\ t.request \in DOMAIN promises
  /\ promises[t.request] \in {"resolved", "rejected"}
  /\ ViewerCountDone(t, IF promises[t.request] = "resolved" THEN count ELSE 0)

\* the userInfo timer fires
\* The run gets to its first await or to its return only if its batching loop ends.
FireUserInfo(s) ==
  /\ liveTimers[s]["userInfo"] > 0
  /\ \/ IsPaused(sessions[s]) \/ IsLocked(sessions[s], "userInfo")
     \/ LoopEnds(Len(sessions[s].pendingUserInfo), sessions[s].config.batchSize)
  /\ Apply(BeginUserInfo(World, s))
  /\ response' = Ran("userInfo", s)
  /\ UNCHANGED <<now, gwVars, roster, accessor>>

\* getUserInfo resolves for the batch in progress: with the batch's profiles, or with
\* [] after a failed request; updateViewersWithUserInfo up to the await of its push
UserInfoDone(t, ok) ==
  /\ BagIn(t, tasks) /\ t.type = "fetch" /\ t.op = "userInfo"
  /\ LET session == sessions[t.sid]
         userInfo == IF ok THEN Elements(Head(session.userInfoBatches)) ELSE {}
         W1 == [RemoveTask(World, t) EXCEPT
                  !.sess[t.sid].viewers = [u \in DOMAIN @ |->
                     IF u \in userInfo THEN [@[u] EXCEPT !.enriched = TRUE] ELSE @[u]]]
     IN Apply(AddTask(W1, Task("push", t.sid, "userInfo", t.caller)))
  /\ response' = NoResponse
  /\ UNCHANGED <<now, gwVars, roster, accessor>>

\* the cleanup timer fires
FireCleanup(s) ==
  /\ liveTimers[s]["cleanup"] > 0
  /\ Apply(BackgroundCleanupViewers(World, s))
  /\ response' = NoResponse
  /\ UNCHANGED <<now, gwVars, roster, accessor>>

\* sendTrackingUpdate settles: the primary transport answered ("ok"), the fallback
\* did ("fallbackOk"), or both failed ("fail")
PushSettled(t, outcome) ==
  /\ BagIn(t, tasks) /\ t.type = "push"
  /\ outcome = "fail" => sessions[t.sid].communicationFailures.count < MaxFailCount
  /\ LET W1 == RemoveTask(World, t)
         W2 == IF outcome = "fail" THEN PushFailed(W1, t.sid) ELSE PushSucceeded(W1, t.sid)
         W3 == AfterPush(W2, t)
     IN Apply(W3) /\ response' = W3.resp
  /\ UNCHANGED <<now, gwVars, roster, accessor>>

\* the apiStatus timer fires: sendApiStatusUpdate
FireApiStatus(s) ==
  /\ liveTimers[s]["apiStatus"] > 0
  /\ CopiesIn(Task("push", s, "apiStatus", "timer"), tasks) < MaxInFlight
  /\ Apply(AddTask(World, Task("push", s, "apiStatus", "timer")))
  /\ response' = NoResponse
  /\ UNCHANGED <<now, gwVars, roster, accessor>>

\* the healthCheck timer fires: checkSessionHealth up to the ping's await
FireHealthCheck(s) ==
  /\ liveTimers[s]["healthCheck"] > 0
  /\ CopiesIn(Task("ping", s, "healthCheck", "timer"), tasks) < MaxInFlight
  /\ Apply(AddTask(World, Task("ping", s, "healthCheck", "timer")))
  /\ response' = NoResponse
  /\ UNCHANGED <<now, gwVars, roster, accessor>>

\* PingSettled, were checkSessionHealth to ignore the answer
PingSettledNeverStops(t, outcome) ==
  /\ BagIn(t, tasks) /\ t.type = "ping"
  /\ Apply(RemoveTask(World, t))
  /\ response' = NoResponse
  /\ UNCHANGED <<now, gwVars, roster, accessor>>

\* the ping settles: a success response, a missing or unsuccessful one, or an error
PingSettled(t, outcome) ==
  /\ BagIn(t, tasks) /\ t.type = "ping"
  /\ LET W1 == RemoveTask(World, t)
     IN Apply(IF outcome = "success" THEN W1
              ELSE StopBackgroundTracking(W1, W1.sess[t.sid].channelName, "health"))
  /\ response' = NoResponse
  /\ UNCHANGED <<now, gwVars, roster, accessor>>

\* RESUME_BACKGROUND_TRACKING(channelName)
ResumeBackgroundTracking(ch) ==
  LET s == trackingSessions[ch]
  IN /\ UNCHANGED <<now, gwVars, roster, accessor>>
     /\ IF s = 0
        THEN /\ response' = Resp("RESUME", ch, 0, 0, FALSE)
             /\ UNCHANGED svVars
        ELSE /\ sessions[s].totalRequests < MaxFetches
             /\ LET W1 == BeginFetch([World EXCEPT !.sess[s].paused = FALSE], s, "viewerList", "resume")
                IN Apply(W1) /\ response' = W1.resp

\* Date.now() advances by `step` ms, as long as it stays within `limit`
Tick(step, limit) ==
  /\ now + step <= limit
  /\ now' = now + step
  /\ response' = NoResponse
  /\ UNCHANGED <<svVars, gwVars, roster, accessor>>

(* --------------------------- specification --------------------------- *)
\* what the roster accessor resolves to in Spec: authenticated counts of every interval
\* tier, the roster of a channel nobody is listed in
AuthCounts == {0, 300, 600, 1500}
RosterLists == {{}}

Init ==
  /\ trackingSessions = [ch \in Channels |-> 0]
  /\ sessions = [s \in {} |-> 0]
  /\ liveTimers = [s \in {} |-> 0]
  /\ tasks = EmptyBag
  /\ notifications = {}
  /\ stoppedBy = [s \in {} |-> 0]
  /\ response = NoResponse
  /\ now = TickMs
  /\ requestQueue = <<>>
  /\ isProcessing = FALSE
  /\ drains = EmptyBag
  /\ promises = [r \in {} |-> 0]
  /\ dataStats = [totalApiCalls |-> 0, recentRequests |-> <<>>]
  /\ requestCount = 0
  /\ executed = <<>>
  /\ roster = NoRoster
  /\ accessor = NoAccessor

\* Scheduler view: one channel and one consumer tab; the session is started, stopped,
\* force-stopped and restarted while its roster fetches and status pushes are in flight.
Next ==
  \/ \E config \in StartConfigs :
        Sids = {} /\ StartBackgroundTracking("A", config, 1)
  \/ StopCommand("A")
  \/ ForceStopAllTracking
  \/ \E s \in Sids : FireViewerList(s)
  \/ \E s \in Sids : FireApiStatus(s)
  \/ \E t \in BagToSet(tasks), viewers \in RosterLists, total \in AuthCounts : ViewerListDone(t, viewers, total)
  \/ \E t \in BagToSet(tasks), outcome \in {"ok", "fallbackOk", "fail"} : PushSettled(t, outcome)
  \/ Tick(TickMs, (MaxTicks + 1) * TickMs)

Spec == Init /\ [][Next]_vars

\* Supervisor view: two channels, two consumer tabs; sessions are started over each
\* other, stopped and force-stopped while their health pings are in flight.
NextSupervisor ==
  \/ \E ch \in Channels, config \in {EmptyConfig, NullConfig}, tab \in Tabs :
        Cardinality(Sids) < MaxSessions /\ StartBackgroundTracking(ch, config, tab)
  \/ \E ch \in Channels : StopCommand(ch)
  \/ ForceStopAllTracking
  \/ \E s \in Sids : FireHealthCheck(s)
  \/ \E t \in BagToSet(tasks), outcome \in {"success", "failure"} : PingSettled(t, outcome)

SpecSupervisor == Init /\ [][NextSupervisor]_vars

\* Gateway view: requests of every priority are made, their fetches settle in any
\* order and with any outcome, FORCE_STOP_ALL_TRACKING clears the queue, time passes.
NextGateway ==
  \/ \E priority \in Priorities : MakeRequest(priority)
  \/ \E d \in BagToSet(drains), id \in 0..MaxRequestsMade,
         outcome \in {"ok", "httpError", "networkError", "timer"} :
        ProcessConcurrentRequestsResumes(d, id, outcome)
  \/ \E d \in BagToSet(drains) : ProcessQueueResumes(d)
  \/ ForceStopAllTracking
  \/ Tick(TickMs, (MaxTicks + 2) * TickMs)

SpecGateway == Init /\ [][NextGateway]_vars

\* Drain view: the gateway without clearQueue.  Requests of every priority are made
\* at any moment, the batch's fetches settle one by one with any outcome.  A fetch
\* that was issued settles at some time, and a continuation that is ready to run is run.
NextDrain ==
  \/ \E priority \in Priorities : MakeRequest(priority)
  \/ \E d \in BagToSet(drains), id \in 1..MaxRequestsMade,
         outcome \in {"ok", "httpError", "networkError"} :
        ProcessConcurrentRequestsResumes(d, id, outcome)
  \/ \E d \in BagToSet(drains) : ProcessQueueResumes(d)

SpecDrain ==
  /\ Init /\ [][NextDrain]_vars
  /\ WF_vars(\E d \in BagToSet(drains), id \in 1..MaxRequestsMade,
                 outcome \in {"ok", "httpError", "networkError"} :
                ProcessConcurrentRequestsResumes(d, id, outcome))
  /\ WF_vars(\E d \in BagToSet(drains) : ProcessQueueResumes(d))

\* the counts that a count fetch answers with in the views below
ViewerCounts == {0, 1500}

\* Coupled view: the count fetches of one session go through the gateway next to the
\* requests of other callers; the session is stopped and force-stopped at any moment.
\* Fetches that were issued settle, ready continuations run, pushes are answered.
NextCoupled ==
  \/ Sids = {} /\ StartBackgroundTracking("A", EmptyConfig, 1)
  \/ StopCommand("A")
  \/ ForceStopAllTracking
  \/ \E s \in Sids : FireViewerCountRequest(s)
  \/ \E priority \in Priorities : MakeRequest(priority)
  \/ \E d \in BagToSet(drains), id \in 1..MaxRequestsMade,
         outcome \in {"ok", "httpError", "networkError"} :
        ProcessConcurrentRequestsResumes(d, id, outcome)
  \/ \E d \in BagToSet(drains) : ProcessQueueResumes(d)
  \/ \E t \in BagToSet(tasks), count \in ViewerCounts : ViewerCountReturns(t, count)
  \/ \E t \in BagToSet(tasks) : PushSettled(t, "ok")

SpecCoupled ==
  /\ Init /\ [][NextCoupled]_vars
  /\ WF_vars(\E d \in BagToSet(drains), id \in 1..MaxRequestsMade,
                 outcome \in {"ok", "httpError", "networkError"} :
                ProcessConcurrentRequestsResumes(d, id, outcome))
  /\ WF_vars(\E d \in BagToSet(drains) : ProcessQueueResumes(d))
  /\ WF_vars(\E t \in BagToSet(tasks), count \in ViewerCounts : ViewerCountReturns(t, count))
  /\ WF_vars(\E t \in BagToSet(tasks) : PushSettled(t, "ok"))

\* Interval view: one session is started with any of the configs, and its roster
\* fetches report authenticated counts on both sides of every tier boundary.
BoundaryCounts == {0, 1, 499, 500, 999, 1000, 4999, 5000}

NextInterval ==
  \/ \E config \in StartConfigs :
        Sids = {} /\ StartBackgroundTracking("A", config, 1)
  \/ \E s \in Sids : FireViewerList(s)
  \/ \E t \in BagToSet(tasks), total \in BoundaryCounts : ViewerListDone(t, {}, total)
  \/ \E t \in BagToSet(tasks) : PushSettled(t, "ok")

SpecInterval == Init /\ [][NextInterval]_vars

\* Timeout view: a session with an automatic or the default static timeout sees viewer 1
\* listed by rosters that report authenticated counts of every timeout tier, while
\* time passes in steps that add up to the tiers' timeouts and to 10 ms more.
TimeoutConfigs == {[EmptyConfig EXCEPT !.autoAdjustTimeout = TRUE], EmptyConfig}
TimeoutCounts == {0, 999, 1000, 4999, 5000, 14999, 15000, 24999, 25000}
TimeSteps == {105000, 15000, 30000, 40010}
TimeLimit == 17 * TickMs

NextTimeout ==
  \/ \E config \in TimeoutConfigs :
        Sids = {} /\ StartBackgroundTracking("A", config, 1)
  \/ \E s \in Sids : FireViewerList(s)
  \/ \E t \in BagToSet(tasks), total \in TimeoutCounts : ViewerListDone(t, {1}, total)
  \/ \E t \in BagToSet(tasks) : PushSettled(t, "ok")
  \/ \E s \in Sids : FireCleanup(s)
  \/ \E step \in TimeSteps : Tick(step, TimeLimit)

SpecTimeout == Init /\ [][NextTimeout]_vars

\* Command view: the commands of handleMessage that work on the registry arrive in any
\* order for two channels and two consumer tabs.
ConfigUpdates ==
  {[EmptyConfig EXCEPT !.requestInterval = 2000], [EmptyConfig EXCEPT !.autoAdjustTimeout = TRUE]}

NextCommands ==
  \/ \E ch \in Channels, config \in StartConfigs, tab \in Tabs :
        Cardinality(Sids) < MaxSessions /\ StartBackgroundTracking(ch, config, tab)
  \/ \E ch \in Channels : StopCommand(ch)
  \/ \E ch \in Channels : PauseBackgroundTracking(ch)
  \/ \E ch \in Channels, config \in ConfigUpdates : UpdateTrackingConfig(ch, config)
  \/ UnknownMessage
  \/ ForceStopAllTracking

SpecCommands == Init /\ [][NextCommands]_vars

\* Roster view: getViewerListParallel is called against backends of several sizes
\* and with several concurrency values; each of its requests succeeds, is rejected or
\* is answered without one of the fields.  getViewerCount and getUserInfo calls are
\* answered in every way the gateway may answer them.
RosterTotals == {0, 60, 100, 101, 150, 200, 250, 320, 450}
ConcurrentCalls == {1, 10, 50}

NextRoster ==
  \/ \E reply \in CountReplies : GetViewerCountSettles(reply)
  \/ \E usernames \in {InOrder(1..n) : n \in 0..MaxUsers}, kind \in UserInfoReplies :
        GetUserInfoSettles(usernames, kind)
  \/ \E total \in RosterTotals, concurrentCalls \in ConcurrentCalls :
        GetViewerListParallel(total, concurrentCalls)
  \/ \E outcome \in InitialOutcomes : InitialPageSettles(outcome)
  \/ \E outcome \in BatchOutcomes : BatchSettles(outcome)

SpecRoster == Init /\ [][NextRoster]_vars

\* Concurrency view: a session with roster auto-adjust on or off is fed roster results
\* <<new users, viewers>>: a first roster of 100 viewers, then rosters of 100 viewers
\* with nobody new or 7 new, and surges to 200 viewers of whom 120 are new.
FirstSample == <<100, 100>>
LaterSamples == {<<0, 100>>, <<7, 100>>, <<120, 200>>}

NextConcurrency ==
  \/ \E adjust \in BOOLEAN :
        /\ Sids = {}
        /\ StartBackgroundTracking("A", [EmptyConfig EXCEPT !.viewerListAutoAdjust = adjust], 1)
  \/ \E s \in Sids :
        \E x \in (IF sessions[s].recentNewUserCounts = <<>> THEN {FirstSample} ELSE LaterSamples) :
          /\ Len(sessions[s].recentNewUserCounts) < MaxSamples
          /\ RecordSample(s, x[1], x[2])

SpecConcurrency == Init /\ [][NextConcurrency]_vars

\* Buffer view: a session started with roster auto-adjust on or off and with the initial
\* and reduced concurrency left out, set, or set to 0 is fed rosters without end: after
\* the first one either every roster has nobody new or every roster is a surge, so
\* that the sample buffer fills up and slides.
BufferConfigs ==
  {[EmptyConfig EXCEPT !.viewerListAutoAdjust = adjust,
                       !.viewerListConcurrentCallsInitial = initial,
                       !.viewerListConcurrentCallsReduced = reduced] :
     adjust \in BOOLEAN, initial \in {Absent, 30, 0}, reduced \in {Absent, 5}}

NextBuffer ==
  \/ \E config \in BufferConfigs : Sids = {} /\ StartBackgroundTracking("A", config, 1)
  \/ \E s \in Sids :
        LET samples == sessions[s].recentNewUserCounts
        IN \E x \in (IF samples = <<>> THEN {FirstSample}
                     ELSE IF Len(samples) = 1 THEN {<<0, 100>>, <<120, 200>>}
                     ELSE {<<samples[Len(samples)].newUsers, samples[Len(samples)].totalViewers>>}) :
             RecordSample(s, x[1], x[2])

SpecBuffer == Init /\ [][NextBuffer]_vars

\* Eviction view: a session with an automatic or a short static timeout sees rosters
\* of its first n viewers come and go while time passes in steps of a minute,
\* enrichment runs and the sweep fires.
EvictionConfigs ==
  { [EmptyConfig EXCEPT !.autoAdjustTimeout = TRUE],
    [EmptyConfig EXCEPT !.timeoutDuration = 3 * TickMs] }

NextEviction ==
  \/ \E config \in EvictionConfigs :
        Sids = {} /\ StartBackgroundTracking("A", config, 1)
  \/ \E s \in Sids : FireViewerList(s)
  \/ \E t \in BagToSet(tasks), viewers \in {1..n : n \in 0..MaxUsers} :
        ViewerListDone(t, viewers, 300)
  \/ \E s \in Sids : FireUserInfo(s)
  \/ \E t \in BagToSet(tasks), ok \in BOOLEAN : UserInfoDone(t, ok)
  \/ \E t \in BagToSet(tasks) : PushSettled(t, "ok")
  \/ \E s \in Sids : FireCleanup(s)
  \/ Tick(3 * TickMs, (3 * MaxTicks + 1) * TickMs)

SpecEviction == Init /\ [][NextEviction]_vars

\* Lifecycle view: one session is paused and resumed at any moment while its timers
\* and its initial fetch fire, its fetches resolve and its pushes are delivered.

NextLifecycle ==
  \/ Sids = {} /\ StartBackgroundTracking("A", EmptyConfig, 1)
  \/ PauseBackgroundTracking("A")
  \/ ResumeBackgroundTracking("A")
  \/ \E s \in Sids : InitialFetch(s)
  \/ \E s \in Sids : FireViewerList(s)
  \/ \E s \in Sids : FireViewerCount(s)
  \/ \E s \in Sids : FireUserInfo(s)
  \/ \E t \in BagToSet(tasks), viewers \in {{}, Users} :
        ViewerListDone(t, viewers, 300)
  \/ \E t \in BagToSet(tasks), count \in ViewerCounts : ViewerCountDone(t, count)
  \/ \E t \in BagToSet(tasks), ok \in BOOLEAN : UserInfoDone(t, ok)
  \/ \E t \in BagToSet(tasks) : PushSettled(t, "ok")

SpecLifecycle == Init /\ [][NextLifecycle]_vars

(* ------------------------------- claims ------------------------------- *)
\* C1: the registry never holds more than one session, and right after a successful
\* START for a channel it holds exactly the session that START created.
C1_AtMostOneSession ==
  /\ Cardinality(Registered) <= 1
  /\ (response.op = "START" /\ response.success) =>
        /\ Registered = {response.channelName}
        /\ trackingSessions[response.channelName] = response.sid
        /\ sessions[response.sid].channelName = response.channelName

\* a START for one channel has just replaced the running session of another channel
C1_Witness ==
  /\ response.op = "START" /\ response.success
  /\ \E s \in response.displaced : sessions[s].channelName # response.channelName
  /\ Registered = {response.channelName}

\* C2: a successful START from one tab that displaces a session owned by a different
\* tab has sent TRACKING_STOPPED_BY_OTHER_TAB, naming both channels, to the displaced tab.
C2_DisplacedTabNotified ==
  (response.op = "START" /\ response.success) =>
    \A s \in response.displaced :
      sessions[s].tabId # response.tabId =>
        [tabId |-> sessions[s].tabId, stoppedChannel |-> sessions[s].channelName,
         newChannel |-> response.channelName] \in notifications

\* C3: the requests issued within the trailing window never outnumber the cap.
C3_RateCapRespected ==
  Cardinality({i \in DOMAIN executed : executed[i] > now - requestWindow}) <= maxRequests

\* the session was removed from the registry by stopBackgroundTracking
StoppedByStop(s) == stoppedBy[s] \in {"stop", "start", "comm", "health"}

NoLiveTimer(s) == \A n \in TimerNames : liveTimers[s][n] = 0

\* C4: a session that stopBackgroundTracking has stopped owns no repeating timer, in
\* any later state, whatever roster fetch of it completes after the stop.
C4_NoTimerAfterStop ==
  \A s \in Sids : StoppedByStop(s) => NoLiveTimer(s)

\* C5: a session terminated by the 30 s communication-failure rule is out of the
\* registry and has no timer left that could fire.
C5_SelfTerminatedStaysQuiet ==
  \A s \in Sids :
    stoppedBy[s] = "comm" => (s \notin RegisteredSids /\ NoLiveTimer(s))

\* C6: once STOP_BACKGROUND_TRACKING has been answered for a channel that had no
\* registered session, no timer of a stopped session of that channel is running.
C6_StopOnUnregisteredLeavesNoTimer ==
  (response.op = "STOP" /\ response.sid = 0) =>
    \A s \in Sids :
      (sessions[s].channelName = response.channelName /\ StoppedByStop(s)) => NoLiveTimer(s)

\* a roster fetch of session s is processed in this step
RosterFetchProcessed(s) == sessions'[s].totalRequests = sessions[s].totalRequests + 1

\* the interval tiers the specification names: below 500, below 1000, otherwise
TierOf(authenticatedCount) ==
  IF authenticatedCount < 500 THEN 5000 ELSE IF authenticatedCount < 1000 THEN 2000 ELSE 1000

\* C10 (as amended): with interval auto-adjust on, processing a roster fetch replaces
\* the roster timer exactly when the effective interval of the old count differs from
\* that of the new count, a count of 0 standing for the configured request interval;
\* a registered session keeps exactly one live roster timer, and the stored cadence
\* is the effective interval of the current count.
C10_RebuildOnIntervalChange ==
  [][\A s \in Sids :
       (RosterFetchProcessed(s) /\ sessions[s].config.autoAdjustRequestInterval) =>
         LET old == sessions[s].authenticatedCount
             new == sessions'[s].authenticatedCount
             before == sessions[s].intervals["viewerList"]
             after == sessions'[s].intervals["viewerList"]
         IN /\ (after # before) <=>
                 (CalculateEffectiveIntervalForCount(sessions[s], old)
                    # CalculateEffectiveIntervalForCount(sessions[s], new))
            /\ after.ms = CalculateEffectiveIntervalForCount(sessions[s], new)
            /\ s \in RegisteredSids => liveTimers'[s]["viewerList"] = 1]_vars

\* an auto-adjusting registered session whose roster timer was rebuilt twice, up to
\* the 1 s cadence of the top tier
C10_Witness ==
  \E s \in RegisteredSids :
    /\ sessions[s].config.autoAdjustRequestInterval
    /\ sessions[s].totalRequests = 2
    /\ sessions[s].authenticatedCount >= 1000
    /\ sessions[s].intervals["viewerList"] = [status |-> "live", ms |-> 1000]
    /\ liveTimers[s]["viewerList"] = 1

\* C10 as stated: the roster timer of a registered auto-adjusting session is rebuilt
\* exactly when a roster fetch moves the count across 500 or 1000, and its cadence is
\* the tier's interval.
C10_RebuildOnTierCrossing ==
  [][\A s \in RegisteredSids :
       (RosterFetchProcessed(s) /\ sessions[s].config.autoAdjustRequestInterval) =>
         /\ (sessions'[s].intervals["viewerList"] # sessions[s].intervals["viewerList"]) <=>
              (TierOf(sessions[s].authenticatedCount) # TierOf(sessions'[s].authenticatedCount))
         /\ sessions'[s].intervals["viewerList"].ms = TierOf(sessions'[s].authenticatedCount)]_vars

\* C7: a getViewerListParallel call none of whose requests failed, against a backend
\* of more than one page, sent every follow-up page with a cursor that differs from
\* the page before it, and returns at least totalCount distinct usernames.
C7_RosterComplete ==
  (roster.state = "done" /\ ~roster.failed /\ ~roster.missing /\ roster.total > pageSize) =>
    /\ \A i \in 2..Len(roster.payloads) : roster.payloads[i] # roster.payloads[i - 1]
    /\ Cardinality(Distinct(roster.viewers)) >= roster.total

\* a sample was recorded for session s in this step
SampleRecorded(s) == sessions'[s].recentNewUserCounts # sessions[s].recentNewUserCounts

\* the sample's own new-user ratio against a percentage
SampleBelow(x, pct) == x.newUsers * 100 < pct * x.totalViewers
SampleAbove(x, pct) == x.newUsers * 100 > pct * x.totalViewers

\* C8 (as amended): with roster auto-adjust on and at least 5 samples recorded, after a
\* sample is recorded the concurrency is the reduced value when every sample of the
\* trailing 10 is below 5%, the initial value when every one of them is above 10%, and
\* it is unchanged when the ratio of new users to viewers summed over the trailing 10
\* samples lies within 5%..10%.
C8_AdjustOnTrailingRatio ==
  [][\A s \in Sids :
       LET after == sessions'[s]
           w == RecentCounts(after.recentNewUserCounts)
           sn == SumField(w, "newUsers")
           st == SumField(w, "totalViewers")
       IN (SampleRecorded(s) /\ after.config.viewerListAutoAdjust
             /\ Len(after.recentNewUserCounts) >= 5) =>
            /\ (\A i \in DOMAIN w : SampleBelow(w[i], 5)) =>
                  after.viewerListConcurrentCalls = after.config.viewerListConcurrentCallsReduced
            /\ (\A i \in DOMAIN w : SampleAbove(w[i], 10)) =>
                  after.viewerListConcurrentCalls = after.config.viewerListConcurrentCallsInitial
            /\ (sn * 100 >= 5 * st /\ sn * 100 <= 10 * st) =>
                  after.viewerListConcurrentCalls = sessions[s].viewerListConcurrentCalls]_vars

\* a session whose concurrency was reduced (the ten rosters after the first found
\* nobody new) and is back at the initial value after a surge
C8_Witness ==
  \E s \in Sids :
    LET samples == sessions[s].recentNewUserCounts
    IN /\ sessions[s].config.viewerListAutoAdjust
       /\ Len(samples) = 12
       /\ \A i \in 2..11 : samples[i].newUsers = 0
       /\ samples[12].newUsers = 120
       /\ sessions[s].viewerListConcurrentCalls = sessions[s].config.viewerListConcurrentCallsInitial

\* C8 as stated: recording a sample whose own ratio lies strictly between the two
\* thresholds never changes the concurrency value.
C8_InBetweenSampleKeepsValue ==
  [][\A s \in Sids :
       LET after == sessions'[s]
           x == after.recentNewUserCounts[Len(after.recentNewUserCounts)]
       IN (SampleRecorded(s) /\ after.config.viewerListAutoAdjust
             /\ Len(after.recentNewUserCounts) >= 5
             /\ SampleAbove(x, 5) /\ SampleBelow(x, 10)) =>
            after.viewerListConcurrentCalls = sessions[s].viewerListConcurrentCalls]_vars

\* C9: an eviction sweep removes from the viewer map and from the pending set exactly
\* the viewers last seen more than the effective timeout ago; every other viewer keeps
\* its record and its pending-set membership.
C9_SweepEvictsExactlyTheTimedOut ==
  [][\A s \in Sids :
       FireCleanup(s) =>
         LET before == sessions[s]
             after == sessions'[s]
             effectiveTimeout == CalculateEffectiveTimeout(before)
         IN \A u \in DOMAIN before.viewers :
              IF now - before.viewers[u].lastSeen > effectiveTimeout
              THEN /\ u \notin DOMAIN after.viewers
                   /\ u \notin Elements(after.pendingUserInfo)
              ELSE /\ u \in DOMAIN after.viewers
                   /\ after.viewers[u] = before.viewers[u]
                   /\ (u \in Elements(after.pendingUserInfo)) <=> (u \in Elements(before.pendingUserInfo))]_vars

\* a sweep has evicted a viewer (its CLEANUP_UPDATE is in flight) and kept another one,
\* whose age is the timeout exactly and who is not pending
C9_Witness ==
  \E s \in Sids :
    /\ BagIn(Task("push", s, "cleanup", "timer"), tasks)
    /\ \E u \in DOMAIN sessions[s].viewers :
         /\ now - sessions[s].viewers[u].lastSeen = CalculateEffectiveTimeout(sessions[s])
         /\ u \notin Elements(sessions[s].pendingUserInfo)
    /\ \E u \in Users : u \notin DOMAIN sessions[s].viewers

\* C11: in every state of every session, each username of the pending-enrichment set
\* is a key of the viewer map.
C11_PendingAreViewers ==
  \A s \in Sids : Elements(sessions[s].pendingUserInfo) \subseteq DOMAIN sessions[s].viewers

\* a sweep has evicted a viewer while an enrichment batch that names it is awaited and
\* another viewer is still pending
C11_Witness ==
  \E s \in Sids :
    /\ BagIn(Task("push", s, "cleanup", "timer"), tasks)
    /\ BagIn(Task("fetch", s, "userInfo", "timer"), tasks)
    /\ sessions[s].pendingUserInfo # <<>>
    /\ \E u \in Elements(Head(sessions[s].userInfoBatches)) : u \notin DOMAIN sessions[s].viewers

Settled(id) == id \in DOMAIN promises /\ promises[id] \in {"resolved", "rejected"}

\* C13: without clearQueue, a non-empty queue always has a processQueue call running
\* that will see it, and every request handed to makeRequest is eventually executed
\* and settled.
C13_NoRequestStranded ==
  /\ [](requestQueue # <<>> => (isProcessing /\ BagCardinality(drains) = 1))
  /\ \A id \in 1..MaxRequestsMade : (id \in DOMAIN promises) ~> Settled(id)

\* a request has arrived after the drain loop ended on an empty queue and before
\* processQueue reset the flag
C13_Witness ==
  /\ requestQueue # <<>>
  /\ isProcessing
  /\ \E d \in BagToSet(drains) : d.returned

\* C14: when a fetch of a concurrent batch settles, its own promise is resolved on
\* success and rejected on failure, and no promise of a request in execution or already
\* settled changes; a promise leaves "executing" only this way; and once the last
\* fetch of a batch has settled, whatever its outcome, the next batch is dispatched
\* if the queue has entries.
C14_FailureStaysLocal ==
  [][/\ \A d \in BagToSet(drains), id \in 1..MaxRequestsMade,
          outcome \in {"ok", "httpError", "networkError"} :
          ProcessConcurrentRequestsResumes(d, id, outcome) =>
            /\ promises[id] = "executing"
            /\ promises'[id] = (IF outcome = "ok" THEN "resolved" ELSE "rejected")
            /\ \A r \in DOMAIN promises \ {id} :
                 promises[r] # "pending" => promises'[r] = promises[r]
            /\ (d.pending = {id} /\ requestQueue # <<>>) =>
                 \E e \in BagToSet(drains') :
                   /\ e.pending # {}
                   /\ \A r \in e.pending : promises[r] = "pending" /\ promises'[r] = "executing"
     /\ \A r \in DOMAIN promises :
          /\ Settled(r) => promises'[r] = promises[r]
          /\ (promises[r] = "executing" /\ promises'[r] # "executing") =>
               \E d \in BagToSet(drains) : r \in d.pending /\ r \notin UNION {e.pending : e \in BagToSet(drains')}]_vars

\* in the batch of requests 2 and 3 one fetch failed and the other succeeded, and
\* the drain has gone on to request 4
C14_Witness ==
  /\ DOMAIN promises = 1..4
  /\ promises[2] = "rejected"
  /\ promises[3] = "resolved"
  /\ promises[4] = "executing"

\* C15: every network call the gateway has executed to its end, whatever its outcome,
\* is counted in the usage statistics, and, as long as the statistics keep that many
\* entries, is listed among the recent requests the rolling window is computed from.
C15_EveryCallCounted ==
  LET calls == Cardinality({id \in DOMAIN promises : Settled(id)})
  IN /\ dataStats.totalApiCalls = calls
     /\ Len(dataStats.recentRequests) = Min(calls, RecentRequestsKept)

\* C17: a roster fetch cycle whose accessor result is the failure value (no viewers,
\* total 0) leaves the viewer map, the authenticated count, the sample buffer of the
\* adaptive concurrency and the roster timer as they were.
C17_FailedRosterFetchIsNoUpdate ==
  [][\A t \in BagToSet(tasks) :
       ViewerListDone(t, {}, 0) =>
         /\ sessions'[t.sid].viewers = sessions[t.sid].viewers
         /\ sessions'[t.sid].authenticatedCount = sessions[t.sid].authenticatedCount
         /\ sessions'[t.sid].recentNewUserCounts = sessions[t.sid].recentNewUserCounts
         /\ sessions'[t.sid].intervals["viewerList"] = sessions[t.sid].intervals["viewerList"]]_vars

\* C18: a username that leaves the pending-enrichment set has either left the viewer
\* map as well or has had its profile filled in.
C18_PendingUntilEnrichedOrEvicted ==
  [][\A s \in Sids :
       \A u \in Elements(sessions[s].pendingUserInfo) \ Elements(sessions'[s].pendingUserInfo) :
         \/ u \notin DOMAIN sessions'[s].viewers
         \/ sessions'[s].viewers[u].enriched]_vars

\* C19: a roster, count or enrichment fetch operation invoked on a paused session,
\* from its timer or from the initial fetch, changes nothing of the session (no lock
\* taken, no data), starts no request and no push.
C19_PausedFetchReturnsAtOnce ==
  [][\A s \in Sids :
       sessions[s].paused =>
         /\ (FireViewerList(s) \/ FireViewerCount(s) \/ FireUserInfo(s)) =>
              UNCHANGED <<trackingSessions, sessions, liveTimers, tasks, notifications, gwVars>>
         /\ InitialFetch(s) =>
              /\ UNCHANGED <<trackingSessions, sessions, liveTimers, notifications, gwVars>>
              /\ tasks' = tasks (-) SetToBag({Task("timeout", s, "initial", "initial")})]_vars

\* a timer of a paused session has just fired: no lock is held and nothing is in flight
C19_Witness ==
  \E s \in Sids :
    /\ sessions[s].paused
    /\ response \in {Ran("viewerList", s), Ran("viewerCount", s), Ran("userInfo", s)}
    /\ sessions[s].pendingUserInfo # <<>>
    /\ \A op \in {"viewerList", "viewerCount", "userInfo"} : ~sessions[s].requestLocks[op]
    /\ tasks = EmptyBag

\* a suspended step of the RESUME handler of session s
ResumeTasks(s) == {t \in BagToSet(tasks) : t.sid = s /\ t.caller = "resume"}

\* the step just taken has sent the success reply of a RESUME
ResumeReplied == response'.op = "RESUME" /\ response'.success

\* C20 (as amended): RESUME on a registered session clears the paused flag and, in the
\* same step, starts a roster fetch unless one is in flight; the count fetch follows
\* once the roster update was pushed (or at once when the roster fetch was skipped)
\* unless a count fetch is in flight or the session was paused again; the reply is
\* sent only when the fetches the handler started have pushed their updates.
C20_ResumeFetchesUnlessInFlight ==
  [][/\ \A ch \in Channels :
          (trackingSessions[ch] # 0 /\ ResumeBackgroundTracking(ch)) =>
            LET s == trackingSessions[ch]
                locks == sessions[s].requestLocks
            IN /\ ~sessions'[s].paused
               /\ ~locks["viewerList"] =>
                    /\ tasks' = tasks (+) SetToBag({Task("fetch", s, "viewerList", "resume")})
                    /\ sessions'[s].requestLocks["viewerList"]
                    /\ ~ResumeReplied
               /\ (locks["viewerList"] /\ ~locks["viewerCount"]) =>
                    /\ tasks' = tasks (+) SetToBag({Task("fetch", s, "viewerCount", "resume")})
                    /\ sessions'[s].requestLocks["viewerCount"]
                    /\ ~ResumeReplied
               /\ (locks["viewerList"] /\ locks["viewerCount"]) =>
                    /\ tasks' = tasks
                    /\ response' = Resp("RESUME", ch, 0, s, TRUE)
     /\ \A t \in BagToSet(tasks) :
          (t.caller = "resume" /\ t.type = "push" /\ t.op = "viewerList"
             /\ PushSettled(t, "ok")) =>
            IF sessions[t.sid].paused \/ sessions[t.sid].requestLocks["viewerCount"]
            THEN response' = Resp("RESUME", sessions[t.sid].channelName, 0, t.sid, TRUE)
            ELSE /\ BagIn(Task("fetch", t.sid, "viewerCount", "resume"), tasks')
                 /\ ~ResumeReplied
     /\ ResumeReplied =>
          \/ \E ch \in Channels : ResumeBackgroundTracking(ch)
          \/ \E t \in ResumeTasks(response'.sid) :
               t.type = "push" /\ CopiesIn(t, tasks') = CopiesIn(t, tasks) - 1]_vars

\* the count fetch that a RESUME started after the roster update has resolved and
\* its count update is on its way to the consumer, the reply not yet sent
C20_Witness ==
  \E s \in Sids :
    /\ BagIn(Task("push", s, "viewerCount", "resume"), tasks)
    /\ BagIn(Task("timeout", s, "initial", "initial"), tasks)
    /\ sessions[s].totalRequests = 1
    /\ sessions[s].viewerCount = 1500
    /\ response.op # "RESUME"

\* C20 as stated: every RESUME on a registered session starts a roster fetch in the
\* same step, and its reply is sent by the step in which the count update of the count
\* fetch it started is delivered.
C20_ResumeFetchesBoth ==
  [][/\ \A ch \in Channels :
          (trackingSessions[ch] # 0 /\ ResumeBackgroundTracking(ch)) =>
            /\ ~sessions'[trackingSessions[ch]].paused
            /\ CopiesIn(Task("fetch", trackingSessions[ch], "viewerList", "resume"), tasks')
                 = CopiesIn(Task("fetch", trackingSessions[ch], "viewerList", "resume"), tasks) + 1
     /\ ResumeReplied =>
          LET t == Task("push", response'.sid, "viewerCount", "resume")
          IN CopiesIn(t, tasks') = CopiesIn(t, tasks) - 1]_vars

\* the first page of the backend the roster call ran against
FirstPage == CommunityEdges(roster.total, 0, pageSize)

\* C16 (as amended): no accessor rejects.  getViewerCount resolves to 0 unless the reply
\* carries a count.  getUserInfo resolves to [] when the request fails or an item has
\* no user, and to one profile per username otherwise.  getViewerListParallel resolves
\* to no viewers and total 0 when the first request fails or finds no user; a missing
\* field alone is replaced by its empty value (no edges: no viewers, the reported
\* total; no totalCount: the first page, total 0); when only follow-up batches fail
\* or lack their edges, it resolves to at least the first page and the reported total.
C16_AccessorsNeverReject ==
  /\ accessor.result.settled = "resolved"
  /\ accessor.name = "getViewerCount" =>
       accessor.result.count = (IF accessor.reply.kind = "count" THEN accessor.reply.viewersCount ELSE 0)
  /\ accessor.name = "getUserInfo" =>
       IF accessor.reply.kind \in {"rejected", "notArray", "noUser"}
       THEN accessor.result.userInfo = {}
       ELSE {p.username : p \in accessor.result.userInfo} = Elements(accessor.usernames)
  /\ roster.state = "done" =>
       /\ roster.initial \in {"rejected", "noUser"} =>
            roster.viewers = <<>> /\ roster.totalAuthenticatedCount = 0
       /\ roster.initial = "noEdges" =>
            roster.viewers = <<>> /\ roster.totalAuthenticatedCount = roster.total
       /\ roster.initial = "noTotalCount" =>
            roster.viewers = FirstPage /\ roster.totalAuthenticatedCount = 0
       /\ roster.initial = "resolved" =>
            /\ SubSeq(roster.viewers, 1, Len(FirstPage)) = FirstPage
            /\ roster.totalAuthenticatedCount = roster.total

\* getViewerCount has met a rejected request, getViewerListParallel has returned the
\* first page of a larger roster after its follow-up batch was rejected
C16_Witness ==
  /\ accessor.name = "getViewerCount" /\ accessor.reply.kind = "rejected"
  /\ roster.state = "done" /\ roster.initial = "resolved" /\ roster.failed
  /\ roster.total > pageSize /\ roster.viewers = FirstPage

\* C16 as stated: no accessor rejects, and whenever a request failed or a field was
\* missing the count is 0, the profile list is empty, and the roster is empty with
\* total 0 (or, after a first page that was answered in full, the partial roster).
C16_FailureGivesEmptyResult ==
  /\ accessor.result.settled = "resolved"
  /\ (accessor.name = "getViewerCount" /\ accessor.reply.kind # "count") =>
       accessor.result.count = 0
  /\ (accessor.name = "getUserInfo" /\ accessor.reply.kind # "profiles") =>
       accessor.result.userInfo = {}
  /\ (roster.state = "done" /\ roster.initial \notin {"none", "resolved"}) =>
       roster.viewers = <<>> /\ roster.totalAuthenticatedCount = 0

FetchKinds == {"viewerList", "viewerCount", "userInfo"}

RECURSIVE SumCopies(_)
SumCopies(ts) ==
  IF ts = {} THEN 0
  ELSE LET t == CHOOSE x \in ts : TRUE IN CopiesIn(t, tasks) + SumCopies(ts \ {t})

\* the instances of fetch operation op of session s that hold the lock: awaiting
\* their accessor or the push of their update, whoever started them
InFlight(s, op) ==
  SumCopies({t \in BagToSet(tasks) : t.sid = s /\ t.op = op /\ t.type \in {"fetch", "push"}})

\* C21: of each session and each fetch kind at most one instance is in flight, whether
\* a timer, the initial fetch or a resume started it, and the lock is held exactly
\* while one is.
C21_OneInstancePerKind ==
  \A s \in Sids : \A op \in FetchKinds :
    /\ InFlight(s, op) <= 1
    /\ sessions[s].requestLocks[op] <=> InFlight(s, op) = 1

\* a roster fetch started by a resume, a count fetch and an enrichment fetch started
\* by their timers are in flight together
C21_Witness ==
  \E s \in Sids :
    /\ BagIn(Task("fetch", s, "viewerList", "resume"), tasks)
    /\ BagIn(Task("fetch", s, "viewerCount", "timer"), tasks)
    /\ BagIn(Task("fetch", s, "userInfo", "timer"), tasks)

\* C22: a fetch operation that holds its lock releases it at some later time.
\* An operation holds its lock from the moment it takes it until its finally block has run,
\* whether or not the session is still registered by then.
C22_LockEventuallyReleased ==
  \A s \in 1..MaxSessions : \A op \in FetchKinds :
    (InFlight(s, op) > 0) ~> (InFlight(s, op) = 0)

\* C23 (as amended): the cadence of the roster timer of a registered session is the
\* configured request interval when interval auto-adjust is off or the authenticated
\* count is 0, and otherwise 5 s below 500, 2 s below 1000 and 1 s from 1000 on.
C23_EffectiveRequestInterval ==
  \A s \in RegisteredSids :
    sessions[s].intervals["viewerList"].ms =
      IF sessions[s].config.autoAdjustRequestInterval /\ sessions[s].authenticatedCount # 0
      THEN TierOf(sessions[s].authenticatedCount)
      ELSE sessions[s].config.requestInterval

\* an auto-adjusting session with a configured interval of 5 s whose second roster
\* fetch brought the count to 999: the roster timer runs at 2 s
C23_Witness ==
  \E s \in RegisteredSids :
    /\ sessions[s].config.autoAdjustRequestInterval
    /\ sessions[s].config.requestInterval = 5000
    /\ sessions[s].totalRequests = 2
    /\ sessions[s].authenticatedCount = 999
    /\ sessions[s].intervals["viewerList"] = [status |-> "live", ms |-> 2000]

\* C23 as stated: with auto-adjust on the cadence is the tier's interval, a count of 0
\* included.
C23_TierIntervalFromZero ==
  \A s \in RegisteredSids :
    sessions[s].intervals["viewerList"].ms =
      IF sessions[s].config.autoAdjustRequestInterval
      THEN TierOf(sessions[s].authenticatedCount)
      ELSE sessions[s].config.requestInterval

\* the eviction timeout the specification names for an authenticated count n
TimeoutOf(n) ==
  60000 + (IF n < 1000 THEN 45000
           ELSE IF n < 5000 THEN 60000
           ELSE IF n < 15000 THEN 90000
           ELSE 120000 + 10000 * ((n - 15000) \div 10000))

\* C24: an eviction sweep keeps exactly the viewers last seen no longer ago than the
\* effective timeout, which with timeout auto-adjust on is 60000 plus the tier value of
\* the authenticated count, and the configured timeout otherwise.
C24_EffectiveTimeout ==
  [][\A s \in Sids :
       FireCleanup(s) =>
         LET effectiveTimeout == IF sessions[s].config.autoAdjustTimeout
                                 THEN TimeoutOf(sessions[s].authenticatedCount)
                                 ELSE sessions[s].config.timeoutDuration
         IN DOMAIN sessions'[s].viewers =
              {u \in DOMAIN sessions[s].viewers :
                 now - sessions[s].viewers[u].lastSeen <= effectiveTimeout}]_vars

C26_SuccessResetsFailures ==
  /\ [](\A s \in Sids :
          sessions[s].communicationFailures.count = 0
            <=> sessions[s].communicationFailures.firstFailure = 0)
  /\ [][\A t \in BagToSet(tasks) : \A outcome \in {"ok", "fallbackOk"} :
          PushSettled(t, outcome) =>
            sessions'[t.sid].communicationFailures =
              [count |-> 0, firstFailure |-> 0, lastFailure |-> 0]]_vars

\* a registered session after two failed pushes at different times since its last
\* delivered one: the first-failure time is still that of the first of them
C26_Witness ==
  \E s \in RegisteredSids :
    /\ sessions[s].communicationFailures.count = 2
    /\ sessions[s].communicationFailures.firstFailure < sessions[s].communicationFailures.lastFailure

\* C27: a START_BACKGROUND_TRACKING command that is answered with a failure result
\* leaves the registry, the sessions and every timer as they were.
C27_FailedStartChangesNothing ==
  [][(response'.op = "START" /\ ~response'.success) =>
       /\ trackingSessions' = trackingSessions
       /\ sessions' = sessions
       /\ liveTimers' = liveTimers]_vars

\* C28: when FORCE_STOP_ALL_TRACKING has been answered the registry is empty, the
\* request queue is empty, and no session that was registered before the command has
\* a repeating timer running.
C28_ForceStopResetsEverything ==
  [][response'.op = "FORCE_STOP_ALL" =>
       /\ \A ch \in Channels : trackingSessions'[ch] = 0
       /\ requestQueue' = <<>>
       /\ \A s \in RegisteredSids : NoLiveTimer(s)']_vars

\* request id is in the queue
Queued(id) == \E i \in DOMAIN requestQueue : requestQueue[i].id = id

\* the priority request id was submitted with, while it is queued
PriorityOf(id) == (CHOOSE r \in Elements(requestQueue) : r.id = id).priority

\* request id is taken from the queue for execution in this step
Dequeued(id) == Queued(id) /\ ~Queued(id)' /\ promises'[id] = "executing"

\* C29: the queue is at all times in ascending order of priority and, among equal
\* priorities, of submission; and a request is taken from the queue for execution only
\* together with, or after, every request queued at that moment that has a lower
\* priority value or the same priority and an earlier submission.
C29_DequeueByPriorityThenSubmission ==
  /\ [](\A i, j \in DOMAIN requestQueue :
          i < j => \/ requestQueue[i].priority < requestQueue[j].priority
                   \/ /\ requestQueue[i].priority = requestQueue[j].priority
                      /\ requestQueue[i].id < requestQueue[j].id)
  /\ [][\A a, b \in 1..MaxRequestsMade :
          (Dequeued(b) /\ Queued(a) /\ a # b
             /\ (PriorityOf(a) < PriorityOf(b) \/ (PriorityOf(a) = PriorityOf(b) /\ a < b)))
            => Dequeued(a)]_vars

\* a request is being executed while a request of priority 3 that was submitted before
\* it is still queued
C29_Witness ==
  \E a, b \in DOMAIN promises :
    /\ a < b
    /\ Queued(a) /\ PriorityOf(a) = 3
    /\ promises[b] = "executing"

\* the makeRequest calls of the roster accessor after the first page
FollowUps == {i \in DOMAIN roster.priorities : i > 1}

\* C30 (as amended): getViewerCount submits its request at priority 1, getUserInfo as
\* called by the scheduler at priority 3, and getViewerListParallel its first page at
\* priority 1 and every follow-up batch at priority 2.
C30_AccessorPriorities ==
  /\ accessor.name = "getViewerCount" => accessor.priority = 1
  /\ (accessor.name = "getUserInfo" /\ accessor.usernames # <<>>) => accessor.priority = 3
  /\ roster.state # "idle" =>
       /\ roster.priorities[1] = 1
       /\ \A i \in FollowUps : roster.priorities[i] = 2

\* a roster call has sent its first page and two follow-up batches, and a count or an
\* enrichment call has made its request
C30_Witness ==
  /\ Len(roster.priorities) = 3
  /\ accessor.priority # 0

\* C30 as stated: every request of the roster accessor, the first page included, goes
\* out at priority 2.
C30_RosterAtOneTier ==
  /\ accessor.name = "getViewerCount" => accessor.priority = 1
  /\ (accessor.name = "getUserInfo" /\ accessor.usernames # <<>>) => accessor.priority = 3
  /\ \A i \in DOMAIN roster.priorities : roster.priorities[i] = 2

\* C31: UPDATE_TRACKING_CONFIG for a channel with a registered session is answered with
\* a success result, and no step other than that command changes the config of a session.
C31_UpdateConfigSucceeds ==
  [][/\ (response'.op = "UPDATE_TRACKING_CONFIG" /\ trackingSessions[response'.channelName] # 0)
          => response'.success
     /\ \A s \in Sids :
          sessions'[s].config # sessions[s].config => response'.op = "UPDATE_TRACKING_CONFIG"]_vars

\* the requests whose fetch has been issued and has not settled
Executing == {id \in DOMAIN promises : promises[id] = "executing"}

\* the requests whose fetch is issued in this step: the batch taken from the queue
Batch == Executing' \ Executing

\* C32: a batch is taken from the queue only when no request of an earlier batch is
\* still in flight, its size is the least of the configured concurrency, the room left
\* under the cap and the queue length, and so the requests in flight never exceed the
\* configured concurrency.
C32_InFlightWithinConcurrency ==
  /\ [](Cardinality(Executing) <= concurrentUserInfoBatches)
  /\ [][Batch # {} =>
          /\ Executing' = Batch
          /\ Cardinality(Batch) =
               Min(Min(concurrentUserInfoBatches, maxRequests - RequestsInLastMinute(dataStats')),
                   Len(requestQueue') + Cardinality(Batch))]_vars

\* C33: a session that is in the registry owns exactly one live timer of each of the
\* six kinds, whatever commands were handled and roster timers rebuilt before.
C33_SixLiveTimers ==
  \A s \in RegisteredSids : \A n \in TimerNames :
    /\ liveTimers[s][n] = 1
    /\ sessions[s].intervals[n].status = "live"

\* a registered session whose roster timer has been rebuilt from the configured 5 s to
\* the 2 s of a count of 600
C33_Witness ==
  \E s \in RegisteredSids :
    /\ sessions[s].config.requestInterval = 5000
    /\ sessions[s].authenticatedCount = 600
    /\ sessions[s].intervals["viewerList"].ms = 2000
    /\ \A n \in TimerNames : liveTimers[s][n] = 1

\* C34: the roster concurrency of a session is its configured initial or its configured
\* reduced value, it is the initial value while fewer than 5 samples are recorded, the
\* buffer never holds more than 20 samples, and recording a sample while roster
\* auto-adjust is off never changes the value.
C34_ConcurrencyValueStaysConfigured ==
  /\ [](\A s \in Sids :
          LET session == sessions[s]
          IN /\ session.viewerListConcurrentCalls \in
                  {session.config.viewerListConcurrentCallsInitial,
                   session.config.viewerListConcurrentCallsReduced}
             /\ Len(session.recentNewUserCounts) < 5 =>
                  session.viewerListConcurrentCalls = session.config.viewerListConcurrentCallsInitial
             /\ Len(session.recentNewUserCounts) <= 20)
  /\ [][\A s \in Sids :
          ~sessions[s].config.viewerListAutoAdjust =>
            sessions'[s].viewerListConcurrentCalls = sessions[s].viewerListConcurrentCalls]_vars

\* C35: when a push or a ping of a session that is no longer registered settles, a
\* session registered since under the same channel stays registered, keeps its timers
\* and is not marked stopped.
C35_OldSessionSparesNewSession ==
  [][\A t \in {x \in BagToSet(tasks) : x.type \in {"ping", "push"} /\ CopiesIn(x, tasks') < CopiesIn(x, tasks)} :
       \A s \in RegisteredSids \ {t.sid} :
         sessions[s].channelName = sessions[t.sid].channelName =>
           /\ trackingSessions'[sessions[s].channelName] = s
           /\ liveTimers'[s] = liveTimers[s]
           /\ stoppedBy'[s] = stoppedBy[s]]_vars

\* Stop view: one session with an enrichment batch size of 1 is started and stopped
\* by command while its initial fetch is still scheduled, or while a roster fetch, an
\* enrichment batch or a push is in flight.
NextStopped ==
  \/ Sids = {} /\ StartBackgroundTracking("A", [EmptyConfig EXCEPT !.batchSize = 1], 1)
  \/ StopCommand("A")
  \/ \E s \in Sids : InitialFetch(s)
  \/ \E s \in Sids : FireViewerList(s)
  \/ \E s \in Sids : FireUserInfo(s)
  \/ \E t \in BagToSet(tasks) : ViewerListDone(t, Users, 300)
  \/ \E t \in BagToSet(tasks), ok \in BOOLEAN : UserInfoDone(t, ok)
  \/ \E t \in BagToSet(tasks) : PushSettled(t, "ok")

SpecStopped == Init /\ [][NextStopped]_vars

\* the fetches of session s that wait for the gateway
FetchesAwaited(s) ==
  SumCopies({t \in BagToSet(tasks) : t.sid = s /\ t.type = "fetch"})

\* C36: once a session is stopped, no step starts a fetch on it or submits a request
\* for it: the initial fetch does not run and an enrichment cycle sends no further batch.
C36_NoFetchStartsAfterStop ==
  [][\A s \in Sids :
       stoppedBy[s] # "none" => FetchesAwaited(s)' <= FetchesAwaited(s)]_vars

\* session s has no fetch in flight, the push a fetch ends with included
Quiet(s) ==
  \A t \in BagToSet(tasks) : t.sid = s => ~(t.type \in {"fetch", "push"} /\ t.op \in FetchKinds)

\* Pause view: a session with an automatic or a short static timeout fetches rosters,
\* is resumed by command and is paused by command at moments when none of its fetches
\* is in flight, and the sweep timer fires while time passes in steps of a minute.
NextPaused ==
  \/ \E config \in EvictionConfigs :
        Sids = {} /\ StartBackgroundTracking("A", config, 1)
  \/ (\A s \in RegisteredSids : Quiet(s)) /\ PauseBackgroundTracking("A")
  \/ ResumeBackgroundTracking("A")
  \/ \E s \in Sids : InitialFetch(s)
  \/ \E s \in Sids : FireViewerList(s)
  \/ \E t \in BagToSet(tasks), viewers \in {1..n : n \in 0..MaxUsers} :
        ViewerListDone(t, viewers, 300)
  \/ \E t \in BagToSet(tasks) : ViewerCountDone(t, 300)
  \/ \E t \in BagToSet(tasks) : PushSettled(t, "ok")
  \/ \E s \in Sids : FireCleanup(s)
  \/ Tick(3 * TickMs, (3 * MaxTicks + 1) * TickMs)

SpecPaused == Init /\ [][NextPaused]_vars

\* C37: while a session is paused, the pause having begun with no fetch in flight, no
\* step removes a viewer from its viewer map or from its pending-enrichment set.
C37_PauseFreezesRoster ==
  [][\A s \in Sids :
       sessions[s].paused =>
         /\ DOMAIN sessions[s].viewers \subseteq DOMAIN sessions'[s].viewers
         /\ Elements(sessions[s].pendingUserInfo) \subseteq Elements(sessions'[s].pendingUserInfo)]_vars

\* C38: every promise returned by makeRequest is settled at some later time, also when
\* clearQueue runs while the request is still queued.
C38_EveryPromiseSettles ==
  \A id \in 1..MaxRequestsMade : (id \in DOMAIN promises) ~> Settled(id)

\* Batching view: a session started with the enrichment batch size left out, set to 1
\* or set to 0 fetches rosters of two viewers and enriches them batch by batch.
BatchSizes == {Absent, 1, 0}

NextBatching ==
  \/ \E batchSize \in BatchSizes :
        Sids = {} /\ StartBackgroundTracking("A", [EmptyConfig EXCEPT !.batchSize = batchSize], 1)
  \/ \E s \in Sids : FireViewerList(s)
  \/ \E t \in BagToSet(tasks) : ViewerListDone(t, Users, 300)
  \/ \E s \in Sids : FireUserInfo(s)
  \/ \E t \in BagToSet(tasks), ok \in BOOLEAN : UserInfoDone(t, ok)
  \/ \E t \in BagToSet(tasks) : PushSettled(t, "ok")

SpecBatching == Init /\ [][NextBatching]_vars

\* C39: the batch size of every session is positive, so that the enrichment batching
\* loop over its pending set comes to an end.
C39_BatchingLoopEnds ==
  \A s \in Sids :
    /\ sessions[s].config.batchSize > 0
    /\ LoopEnds(Len(sessions[s].pendingUserInfo), sessions[s].config.batchSize)

\* handleMessage, case GET_USER_INFO, up to the await of the promise of makeRequest:
\* getUserInfo(channelName, usernames, message.priority || 3) with usernames to look up
GetUserInfoMessage(priority) ==
  /\ NextRequest <= MaxRequestsMade
  /\ tasks' = tasks (+) SetToBag({Awaiting(Task("message", 0, "GET_USER_INFO", "message"), NextRequest)})
  /\ ApplyGateway(Submit(Gateway, NextRequest, priority))
  /\ response' = NoResponse
  /\ UNCHANGED <<trackingSessions, sessions, liveTimers, notifications, stoppedBy, now, roster, accessor>>

\* the promise has settled: getUserInfo returns the profiles, or [] from its catch, and
\* the handler calls sendResponse({success: true, userInfo})
GetUserInfoAnswers(t) ==
  /\ BagIn(t, tasks) /\ t.type = "message"
  /\ Settled(t.request)
  /\ tasks' = tasks (-) SetToBag({t})
  /\ response' = Resp("GET_USER_INFO", "", 0, 0, TRUE)
  /\ UNCHANGED <<trackingSessions, sessions, liveTimers, notifications, stoppedBy, now, gwVars, roster, accessor>>

\* Message view: GET_USER_INFO messages of every priority, messages of an unknown type
\* and FORCE_STOP_ALL_TRACKING arrive at any moment; requests that were issued settle,
\* ready continuations run, and a handler whose promise has settled answers.
NextMessages ==
  \/ \E priority \in Priorities : GetUserInfoMessage(priority)
  \/ UnknownMessage
  \/ ForceStopAllTracking
  \/ \E d \in BagToSet(drains), id \in 1..MaxRequestsMade,
         outcome \in {"ok", "httpError", "networkError"} :
        ProcessConcurrentRequestsResumes(d, id, outcome)
  \/ \E d \in BagToSet(drains) : ProcessQueueResumes(d)
  \/ \E t \in BagToSet(tasks) : GetUserInfoAnswers(t)

SpecMessages ==
  /\ Init /\ [][NextMessages]_vars
  /\ WF_vars(\E d \in BagToSet(drains), id \in 1..MaxRequestsMade,
                 outcome \in {"ok", "httpError", "networkError"} :
                ProcessConcurrentRequestsResumes(d, id, outcome))
  /\ WF_vars(\E d \in BagToSet(drains) : ProcessQueueResumes(d))
  /\ WF_vars(\E t \in BagToSet(tasks) : GetUserInfoAnswers(t))

\* the handler of the message that issued request id has not answered yet
Unanswered(id) == \E t \in BagToSet(tasks) : t.type = "message" /\ t.request = id

\* C40: every message is answered exactly once: a step that ends a handler sends its
\* one response, a message of an unknown type is answered with a failure in a step
\* that changes nothing else, and a handler that waits for a request answers at some
\* later time.
C40_EveryMessageAnsweredOnce ==
  /\ [][/\ (\E id \in 1..MaxRequestsMade : Unanswered(id) /\ ~Unanswered(id)') <=>
             response'.op = "GET_USER_INFO"
        /\ response'.op = "UNKNOWN" =>
             ~response'.success /\ UNCHANGED <<svVars, gwVars>>]_vars
  /\ \A id \in 1..MaxRequestsMade : Unanswered(id) ~> ~Unanswered(id)

====
